---- MODULE Spec2Model ----
(***************************************************************************)
(* Model of the raycasting game (src/src/game.rs, level.rs, sprites.rs).   *)
(*                                                                         *)
(* Numbers.  The program computes in f32.  The model computes in fixed     *)
(* point: a length is an integer number of 1/Scale tiles, a time an        *)
(* integer number of 1/Scale seconds, a heading component an integer       *)
(* number of 1/Scale, an angle an integer number of 1/Scale radians.       *)
(* Quotients are rounded to the nearest unit (Rnd), as f32 rounds to the   *)
(* nearest representable value.                                            *)
(***************************************************************************)
EXTENDS Integers, Sequences, FiniteSets, TLC

Scale == 10 * 10

(***************************************************************************)
(* Bounds of the model (inputs and counters).                              *)
(***************************************************************************)
MaxFrames == 3       \* frames of play explored after a level start
MaxDeathFrames == 2  \* frames explored while the death animation runs
MaxRngSpan == 0      \* width of the window of cells the rng draws from
MaxDraws == 2        \* distinct cells among the draws of one adversary's placement

\* frame times offered to update, in 1/Scale s: when the program runs from
\* Game::new, and when one call is applied to a drawn Game object
DtSet == {200}
AnyDtSet == {10, 200}

\* frame times offered to update when play is followed from a level start with
\* the pause key alone
CoolDtSet == {Scale, 2 * Scale}

\* caps of the elapsed game time and of the death-animation timer (1/Scale s)
MaxTime == MaxFrames * 2 * Scale
MaxDeathAnim == MaxDeathFrames * 2 * Scale

\* jitter pairs (jx, jy) offered to update_sprites, each in [-0.2, 0.2)
JitterSet == { <<-20, 19>> }

(***************************************************************************)
(* Arithmetic helpers.                                                     *)
(***************************************************************************)
Abs(a) == IF a < 0 THEN -a ELSE a

Max(a, b) == IF a >= b THEN a ELSE b

Min(a, b) == IF a <= b THEN a ELSE b

\* a / b rounded to the nearest integer (b > 0), halves away from zero
Rnd(a, b) == IF a >= 0 THEN (2 * a + b) \div (2 * b) ELSE -((2 * (-a) + b) \div (2 * b))

\* f32 -> i32 cast of a non-negative length: truncation to the tile index
Trunc(a) == IF a >= 0 THEN a \div Scale ELSE -((-a) \div Scale)

(***************************************************************************)
(* level.rs                                                                *)
(***************************************************************************)
Border(w, h, x, y) == x = 0 \/ y = 0 \/ x = w - 1 \/ y = h - 1

\* the grid of level1 after all its writes, later writes winning
level1Cell(x, y) ==
  IF y \in 3..(16 - 3 - 1) /\ x = 15 THEN 5
  ELSE IF y \in 3..(16 - 3 - 1) /\ x = 8 THEN 4
  ELSE IF y = 5 /\ x \in 3..(24 - 3 - 1) THEN (IF x % 2 = 0 THEN 2 ELSE 3)
  ELSE IF Border(24, 16, x, y) THEN 1
  ELSE 0

level1 ==
  [w |-> 24, h |-> 16,
   map |-> [i \in 0..(24 * 16 - 1) |-> level1Cell(i % 24, i \div 24)],
   spawn |-> <<2, 2>>, ghost_count |-> 3]

level2Cell(x, y) ==
  IF x \in 3..(28 - 3 - 1) /\ x % 2 = 1 /\ y \in 3..(18 - 3 - 1) /\ y % 3 # 0 THEN 5
  ELSE IF y \in 2..(18 - 2 - 1) /\ y % 2 = 0 /\ x \in 2..(28 - 2 - 1) /\ x % 4 # 0
    THEN (IF (x + y) % 3 = 0 THEN 3 ELSE 4)
  ELSE IF Border(28, 18, x, y) THEN 2
  ELSE 0

level2 ==
  [w |-> 28, h |-> 18,
   map |-> [i \in 0..(28 * 18 - 1) |-> level2Cell(i % 28, i \div 28)],
   spawn |-> <<1, 1>>, ghost_count |-> 5]

level3Cell(x, y) ==
  IF y \in 4..(20 - 4 - 1) /\ (x = 32 \div 3 \/ x = (2 * 32) \div 3) THEN 2
  ELSE IF y = 20 \div 2 /\ x \in 4..(32 - 4 - 1) THEN 1
  ELSE IF y \in 2..(20 - 2 - 1) /\ x \in 2..(32 - 2 - 1) /\ (x + y) % 2 = 0 /\ x % 6 # 0
    THEN (IF x % 3 = 0 THEN 4 ELSE 5)
  ELSE IF Border(32, 20, x, y) THEN 3
  ELSE 0

level3 ==
  [w |-> 32, h |-> 20,
   map |-> [i \in 0..(32 * 20 - 1) |-> level3Cell(i % 32, i \div 32)],
   spawn |-> <<2, 2>>, ghost_count |-> 7]

\* get_level with the index wrapping round the catalog
get_level_wraps(idx) ==
  IF idx % 3 = 0 THEN level1 ELSE IF idx % 3 = 1 THEN level2 ELSE level3

get_level(idx) == IF idx = 0 THEN level1 ELSE IF idx = 1 THEN level2 ELSE level3

\* tile with everything outside the grid open
tile_open_outside(level, x, y) ==
  IF x < 0 \/ y < 0 \/ x >= level.w \/ y >= level.h THEN 0
  ELSE level.map[y * level.w + x]

\* Level::tile
tile(level, x, y) ==
  IF x < 0 \/ y < 0 \/ x >= level.w \/ y >= level.h THEN 1
  ELSE level.map[y * level.w + x]

(***************************************************************************)
(* f32 library functions, in fixed point.                                  *)
(***************************************************************************)
RECURSIVE SqrtSearch(_, _, _)
\* largest r in lo..hi with r * r <= n
SqrtSearch(n, lo, hi) ==
  IF lo >= hi THEN lo
  ELSE LET mid == (lo + hi + 1) \div 2
       IN IF mid * mid <= n THEN SqrtSearch(n, mid, hi) ELSE SqrtSearch(n, lo, mid - 1)

\* f32::sqrt, rounded to the nearest unit; n < 2^30
Sqrt(n) ==
  LET r == SqrtSearch(n, 0, 32767)
  IN IF n - r * r > r THEN r + 1 ELSE r

\* pi and pi/2 in 1/Scale radians
Pi == 314
HalfPi == 157

\* sine of x in 0..Pi (1/Scale rad), result in 1/Scale:
\* 16x(pi-x) / (5pi^2 - 4x(pi-x)), within 0.002 of the true sine
SinArc(x) == Rnd(16 * x * (Pi - x) * Scale, 5 * Pi * Pi - 4 * x * (Pi - x))

\* f32::sin of an angle in 1/Scale rad
Sin(a) ==
  LET r == a % (2 * Pi)
  IN IF r <= Pi THEN SinArc(r) ELSE -SinArc(r - Pi)

\* f32::cos of an angle in 1/Scale rad
Cos(a) == Sin(a + HalfPi)

(***************************************************************************)
(* sprites.rs                                                              *)
(***************************************************************************)
SpriteKind == {"Pellet", "Ghost"}

\* Sprite::new
Sprite(x, y, kind) == [x |-> x, y |-> y, kind |-> kind, anim_frame |-> 0, anim_time |-> 0]

\* centre of a cell coordinate: c as f32 + 0.5
Centre(c) == c * Scale + Scale \div 2

(***************************************************************************)
(* game.rs: population of the registry                                     *)
(***************************************************************************)
\* the cell with row-major index i
CellOf(level, i) == <<i % level.w, i \div level.w>>

\* the first loop without the test of the spawn cell
PelletCells_on_spawn(level) ==
  SelectSeq([i \in 1..(level.w * level.h) |-> i - 1],
            LAMBDA i : /\ level.map[i] = 0
                       /\ (CellOf(level, i)[1] + CellOf(level, i)[2] * 3) % 6 = 0)

\* first loop of build_sprites_for_level: row-major scan of the grid
PelletCells(level) ==
  SelectSeq([i \in 1..(level.w * level.h) |-> i - 1],
            LAMBDA i : /\ level.map[i] = 0
                       /\ CellOf(level, i) # level.spawn
                       /\ (CellOf(level, i)[1] + CellOf(level, i)[2] * 3) % 6 = 0)

\* second loop: the cells the fallback scan accepts, inside the border ring
FallbackCells(level) ==
  { i \in 0..(level.w * level.h - 1) :
      /\ CellOf(level, i)[1] \in 1..(level.w - 2)
      /\ CellOf(level, i)[2] \in 1..(level.h - 2)
      /\ level.map[i] = 0
      /\ CellOf(level, i) # level.spawn }

\* the fallback pellet: the first accepted cell in row-major order, if any
FallbackPellet(level) ==
  IF FallbackCells(level) = {} THEN << >>
  ELSE LET i == CHOOSE j \in FallbackCells(level) : \A k \in FallbackCells(level) : j <= k
       IN << Sprite(Centre(CellOf(level, i)[1]), Centre(CellOf(level, i)[2]), "Pellet") >>

\* the pellets of a level: modulus scan, else the fallback
Pellets(level) ==
  LET cells == PelletCells(level)
      scan == [n \in 1..Len(cells) |->
                 Sprite(Centre(CellOf(level, cells[n])[1]),
                        Centre(CellOf(level, cells[n])[2]), "Pellet")]
  IN IF Len(scan) > 0 THEN scan ELSE FallbackPellet(level)

\* the cells rng.gen_range(1..w-1) x rng.gen_range(1..h-1) can return
InteriorCells(level) == (1..(level.w - 2)) \X (1..(level.h - 2))

\* the draws the model offers: the spawn cell and the cells right of it
RngCells(level) ==
  { c \in InteriorCells(level) :
      /\ c[1] - level.spawn[1] \in 0..MaxRngSpan
      /\ c[2] = level.spawn[2] }

\* third loop, for one rng stream that returns cell c on every draw: each
\* adversary is placed on its first traversable draw among 200, else omitted
Ghosts(level, c) ==
  IF level.map[c[2] * level.w + c[1]] = 0
  THEN [n \in 1..level.ghost_count |-> Sprite(Centre(c[1]), Centre(c[2]), "Ghost")]
  ELSE << >>

\* the attempts one adversary's placement is allowed
tries == 200

\* the inner loop without the break: every traversable draw places an adversary
Attempts_no_break(level, budget) ==
  LET open == SelectSeq(SubSeq(budget, 1, Min(Len(budget), tries)),
                        LAMBDA c : level.map[c[2] * level.w + c[1]] = 0)
  IN [n \in 1..Len(open) |-> Sprite(Centre(open[n][1]), Centre(open[n][2]), "Ghost")]

\* third loop, inner loop: budget is the sequence of cells the rng returns to one
\* adversary's attempts; the adversary is placed on the first traversable one
Attempts(level, budget) ==
  LET open == SelectSeq(SubSeq(budget, 1, Min(Len(budget), tries)),
                        LAMBDA c : level.map[c[2] * level.w + c[1]] = 0)
  IN IF open = << >> THEN << >>
     ELSE << Sprite(Centre(open[1][1]), Centre(open[1][2]), "Ghost") >>

\* third loop, for the adversaries k..ghost_count with the budgets given
RECURSIVE place_ghosts(_, _, _)
place_ghosts(level, budgets, k) ==
  IF k > level.ghost_count THEN << >>
  ELSE Attempts(level, budgets[k]) \o place_ghosts(level, budgets, k + 1)

\* build_sprites_for_level for any rng stream
build_sprites_from(level, budgets) == Pellets(level) \o place_ghosts(level, budgets, 1)

build_sprites_for_level(level, c) == Pellets(level) \o Ghosts(level, c)

CountKind(sprites, kind) == Cardinality({ i \in 1..Len(sprites) : sprites[i].kind = kind })

(***************************************************************************)
(* game.rs: the Game object                                                *)
(***************************************************************************)
VARIABLES mode, level_index, player, pressed, fps, fps_acc, fps_count,
          sprites, pellets_remaining, total_pellets, lives, invincible_time,
          time, death_anim_t,
          pc,   \* "run": the program runs from Game::new; "cool": it runs from
                \* a level start, with the pause key alone; "drawn": a drawn Game
                \* object awaits one call; else the name of the call applied to it
          pre,  \* the Game object the call was applied to
          arg,  \* the arguments of the call
          played,   \* under "cool": the frame time update was given while Playing
          last_hit, \* under "cool": played at the end of the last update that
                    \* took a life, -1 before the first
          call,     \* under "fn": the function called and its arguments
          ret       \* under "fn": whether it has returned, and its result

vars == <<mode, level_index, player, pressed, fps, fps_acc, fps_count,
          sprites, pellets_remaining, total_pellets, lives, invincible_time,
          time, death_anim_t, pc, pre, arg, played, last_hit, call, ret>>

Mode == {"Menu", "Playing", "Paused", "Win", "GameOver"}

\* the key codes the model sends; Space stands for every key without a role
Keys == {"Key1", "Key2", "Key3", "Return", "R", "P", "W", "S", "Q", "E", "Left", "Right", "Space"}

\* the keys delivered while the program runs from Game::new: a call on a drawn
\* Game object takes any key of Keys
RunKeys == {"Key1", "Key2", "Key3", "Return", "R", "P", "W", "S", "E", "Space"}

\* the keys delivered when play is followed from a level start
CoolKeys == {"P"}

\* the sets of keys the model holds down at the same time: none, or any one key
HeldSets == {{}} \cup { {k} : k \in Keys }

\* horizontal pointer deltas the model sends (a half turn each way)
DxSet == {898, -898}

\* Player.move_speed and Player.rot_speed, set once in Game::new
move_speed == 300
rot_speed == 200
mouse_sensitivity == 35   \* 0.0035 rad per pixel, in 1/Scale^2 rad

\* Game.level: Game::new and start_level assign level_index and level together,
\* level = get_level(level_index), and nothing else assigns either
level == get_level(level_index)

\* the Game object as one record
Game ==
  [mode |-> mode, level_index |-> level_index, level |-> level, player |-> player,
   pressed |-> pressed, fps |-> fps, fps_acc |-> fps_acc, fps_count |-> fps_count,
   sprites |-> sprites, pellets_remaining |-> pellets_remaining,
   total_pellets |-> total_pellets, lives |-> lives,
   invincible_time |-> invincible_time, time |-> time, death_anim_t |-> death_anim_t]

\* Game::new; c is the cell the rng returns
new(c) ==
  LET lv == get_level(0)
      sp == build_sprites_for_level(lv, c)
  IN [mode |-> "Menu", level_index |-> 0, level |-> lv,
      player |-> [x |-> Centre(lv.spawn[1]), y |-> Centre(lv.spawn[2]),
                  dir_x |-> -Scale, dir_y |-> 0, plane_x |-> 0, plane_y |-> 66],
      pressed |-> [k \in Keys |-> FALSE],
      fps |-> 0, fps_acc |-> 0, fps_count |-> 0,
      sprites |-> sp,
      pellets_remaining |-> CountKind(sp, "Pellet"),
      total_pellets |-> CountKind(sp, "Pellet"),
      lives |-> 3, invincible_time |-> 0, time |-> 0, death_anim_t |-> 0]

\* start_level without the reset of lives
start_level_keeps_lives(g, index, c) ==
  LET lv == get_level(index)
      sp == build_sprites_for_level(lv, c)
  IN [g EXCEPT !.level_index = index, !.level = lv,
               !.player = [x |-> Centre(lv.spawn[1]), y |-> Centre(lv.spawn[2]),
                           dir_x |-> -Scale, dir_y |-> 0, plane_x |-> 0, plane_y |-> 66],
               !.sprites = sp,
               !.total_pellets = CountKind(sp, "Pellet"),
               !.pellets_remaining = CountKind(sp, "Pellet"),
               !.mode = "Playing", !.invincible_time = 0,
               !.death_anim_t = 0, !.time = 0]

\* Game::start_level; c is the cell the rng returns
start_level(g, index, c) ==
  LET lv == get_level(index)
      sp == build_sprites_for_level(lv, c)
  IN [g EXCEPT !.level_index = index, !.level = lv,
               !.player = [x |-> Centre(lv.spawn[1]), y |-> Centre(lv.spawn[2]),
                           dir_x |-> -Scale, dir_y |-> 0, plane_x |-> 0, plane_y |-> 66],
               !.sprites = sp,
               !.total_pellets = CountKind(sp, "Pellet"),
               !.pellets_remaining = CountKind(sp, "Pellet"),
               !.mode = "Playing", !.lives = 3, !.invincible_time = 0,
               !.death_anim_t = 0, !.time = 0]

\* on_key with Return leaving to the menu from Playing as it does from Paused
on_key_return_quits(g, key, down, c) ==
  LET g1 == [g EXCEPT !.pressed[key] = down]
  IN CASE g1.mode = "Menu" ->
            IF down /\ key = "Key1" THEN start_level(g1, 0, c)
            ELSE IF down /\ key = "Key2" THEN start_level(g1, 1, c)
            ELSE IF down /\ key = "Key3" THEN start_level(g1, 2, c)
            ELSE g1
       [] g1.mode = "Win" ->
            IF down /\ key = "Return" THEN [g1 EXCEPT !.mode = "Menu"] ELSE g1
       [] g1.mode = "GameOver" ->
            IF down /\ key = "R" THEN start_level(g1, g1.level_index, c)
            ELSE IF down /\ key = "Return" THEN [g1 EXCEPT !.mode = "Menu"]
            ELSE g1
       [] g1.mode = "Paused" ->
            IF down /\ key = "P" THEN [g1 EXCEPT !.mode = "Playing"]
            ELSE IF down /\ key = "Return" THEN [g1 EXCEPT !.mode = "Menu"]
            ELSE g1
       [] g1.mode = "Playing" ->
            IF down /\ key = "P" THEN [g1 EXCEPT !.mode = "Paused"]
            ELSE IF down /\ key = "Return" THEN [g1 EXCEPT !.mode = "Menu"]
            ELSE g1

\* Game::on_key whose pause also ends the cooldown
on_key_pause_ends_cooldown(g, key, down, c) ==
  LET g1 == [g EXCEPT !.pressed[key] = down]
  IN CASE g1.mode = "Menu" ->
            IF down /\ key = "Key1" THEN start_level(g1, 0, c)
            ELSE IF down /\ key = "Key2" THEN start_level(g1, 1, c)
            ELSE IF down /\ key = "Key3" THEN start_level(g1, 2, c)
            ELSE g1
       [] g1.mode = "Win" ->
            IF down /\ key = "Return" THEN [g1 EXCEPT !.mode = "Menu"] ELSE g1
       [] g1.mode = "GameOver" ->
            IF down /\ key = "R" THEN start_level(g1, g1.level_index, c)
            ELSE IF down /\ key = "Return" THEN [g1 EXCEPT !.mode = "Menu"]
            ELSE g1
       [] g1.mode = "Paused" ->
            IF down /\ key = "P" THEN [g1 EXCEPT !.mode = "Playing"]
            ELSE IF down /\ key = "Return" THEN [g1 EXCEPT !.mode = "Menu"]
            ELSE g1
       [] g1.mode = "Playing" ->
            IF down /\ key = "P"
            THEN [g1 EXCEPT !.mode = "Paused", !.invincible_time = 0]
            ELSE g1

\* Game::on_key recording the key only while Playing
on_key_records_playing(g, key, down, c) ==
  LET g1 == IF g.mode = "Playing" THEN [g EXCEPT !.pressed[key] = down] ELSE g
  IN CASE g1.mode = "Menu" ->
            IF down /\ key = "Key1" THEN start_level(g1, 0, c)
            ELSE IF down /\ key = "Key2" THEN start_level(g1, 1, c)
            ELSE IF down /\ key = "Key3" THEN start_level(g1, 2, c)
            ELSE g1
       [] g1.mode = "Win" ->
            IF down /\ key = "Return" THEN [g1 EXCEPT !.mode = "Menu"] ELSE g1
       [] g1.mode = "GameOver" ->
            IF down /\ key = "R" THEN start_level(g1, g1.level_index, c)
            ELSE IF down /\ key = "Return" THEN [g1 EXCEPT !.mode = "Menu"]
            ELSE g1
       [] g1.mode = "Paused" ->
            IF down /\ key = "P" THEN [g1 EXCEPT !.mode = "Playing"]
            ELSE IF down /\ key = "Return" THEN [g1 EXCEPT !.mode = "Menu"]
            ELSE g1
       [] g1.mode = "Playing" ->
            IF down /\ key = "P" THEN [g1 EXCEPT !.mode = "Paused"] ELSE g1

\* Game::on_key
on_key(g, key, down, c) ==
  LET g1 == [g EXCEPT !.pressed[key] = down]
  IN CASE g1.mode = "Menu" ->
            IF down /\ key = "Key1" THEN start_level(g1, 0, c)
            ELSE IF down /\ key = "Key2" THEN start_level(g1, 1, c)
            ELSE IF down /\ key = "Key3" THEN start_level(g1, 2, c)
            ELSE g1
       [] g1.mode = "Win" ->
            IF down /\ key = "Return" THEN [g1 EXCEPT !.mode = "Menu"] ELSE g1
       [] g1.mode = "GameOver" ->
            IF down /\ key = "R" THEN start_level(g1, g1.level_index, c)
            ELSE IF down /\ key = "Return" THEN [g1 EXCEPT !.mode = "Menu"]
            ELSE g1
       [] g1.mode = "Paused" ->
            IF down /\ key = "P" THEN [g1 EXCEPT !.mode = "Playing"]
            ELSE IF down /\ key = "Return" THEN [g1 EXCEPT !.mode = "Menu"]
            ELSE g1
       [] g1.mode = "Playing" ->
            IF down /\ key = "P" THEN [g1 EXCEPT !.mode = "Paused"] ELSE g1

\* Game::rotate turning the heading alone
rotate_heading(g, angle) ==
  LET p == g.player
      c == Cos(angle)
      s == Sin(angle)
  IN [g EXCEPT !.player.dir_x = Rnd(p.dir_x * c - p.dir_y * s, Scale),
               !.player.dir_y = Rnd(p.dir_x * s + p.dir_y * c, Scale)]

\* Game::rotate, angle in 1/Scale rad
rotate(g, angle) ==
  LET p == g.player
      c == Cos(angle)
      s == Sin(angle)
  IN [g EXCEPT !.player.dir_x = Rnd(p.dir_x * c - p.dir_y * s, Scale),
               !.player.dir_y = Rnd(p.dir_x * s + p.dir_y * c, Scale),
               !.player.plane_x = Rnd(p.plane_x * c - p.plane_y * s, Scale),
               !.player.plane_y = Rnd(p.plane_x * s + p.plane_y * c, Scale)]

\* on_mouse_delta without the test of the mode
on_mouse_delta_any_mode(g, dx) == rotate(g, Rnd((-dx) * mouse_sensitivity, Scale))

\* Game::on_mouse_delta, dx in pixels
on_mouse_delta(g, dx) ==
  IF g.mode # "Playing" THEN g
  ELSE rotate(g, Rnd((-dx) * mouse_sensitivity, Scale))

\* Game::is_wall
is_wall(g, x, y) ==
  IF x < 0 \/ y < 0 THEN TRUE
  ELSE IF Trunc(x) < 0 \/ Trunc(y) < 0 \/ Trunc(x) >= g.level.w \/ Trunc(y) >= g.level.h THEN TRUE
  ELSE tile(g.level, Trunc(x), Trunc(y)) > 0

\* is_wall_level without the test of the sign: only the truncated cell decides
is_wall_level_by_cell(lv, x, y) ==
  tile(lv, Trunc(x), Trunc(y)) > 0

\* is_wall_level
is_wall_level(lv, x, y) ==
  IF x < 0 \/ y < 0 THEN TRUE
  ELSE tile(lv, Trunc(x), Trunc(y)) > 0

\* Game::try_move with one test of the target point for both axes
try_move_joint(g, dx, dy) ==
  LET new_x == g.player.x + dx
      new_y == g.player.y + dy
  IN IF ~is_wall(g, new_x, new_y)
     THEN [g EXCEPT !.player.x = new_x, !.player.y = new_y]
     ELSE g

\* Game::try_move
try_move(g, dx, dy) ==
  LET new_x == g.player.x + dx
      new_y == g.player.y + dy
      g1 == IF ~is_wall(g, new_x, g.player.y) THEN [g EXCEPT !.player.x = new_x] ELSE g
  IN IF ~is_wall(g1, g1.player.x, new_y) THEN [g1 EXCEPT !.player.y = new_y] ELSE g1

\* Game::is_down
is_down(g, key) == g.pressed[key]

\* Game::handle_input, dt in 1/Scale s
handle_input(g, dt) ==
  LET w_down == is_down(g, "W")
      s_down == is_down(g, "S")
      q_down == is_down(g, "Q") \/ is_down(g, "Left")
      e_down == is_down(g, "E") \/ is_down(g, "Right")
      step_x == Rnd(g.player.dir_x * move_speed * dt, Scale * Scale)
      step_y == Rnd(g.player.dir_y * move_speed * dt, Scale * Scale)
      move_x == (IF w_down THEN step_x ELSE 0) - (IF s_down THEN step_x ELSE 0)
      move_y == (IF w_down THEN step_y ELSE 0) - (IF s_down THEN step_y ELSE 0)
      turn == Rnd(rot_speed * dt, Scale)
      rot == (IF q_down THEN turn ELSE 0) - (IF e_down THEN turn ELSE 0)
      g1 == IF Abs(rot) > 0 THEN rotate(g, rot) ELSE g
  IN try_move(g1, move_x, move_y)

(***************************************************************************)
(* game.rs: adversary steering                                             *)
(***************************************************************************)
scatter_r == 160   \* 1.6 tiles
sep_r == 90        \* 0.9 tiles
speed == 135       \* 1.35 tiles per second
phase == 12566     \* 1.2566371 rad between adversaries, in 1/Scale^2 rad

\* ghost_positions: the registry indices of the adversaries, in order
ghost_positions(sp) == SelectSeq([i \in 1..Len(sp) |-> i], LAMBDA i : sp[i].kind = "Ghost")

\* the separation force on the adversary at registry index gi
RECURSIVE Repulsion(_, _, _, _)
Repulsion(sp, gp, gi, j) ==
  IF j > Len(gp) THEN <<0, 0>>
  ELSE LET rest == Repulsion(sp, gp, gi, j + 1)
           dx == sp[gi].x - sp[gp[j]].x
           dy == sp[gi].y - sp[gp[j]].y
           d2 == dx * dx + dy * dy
           d == Max(Sqrt(d2), 1)
           force == Rnd((sep_r - d) * Scale, sep_r)
       IN IF gp[j] = gi \/ ~(d2 < sep_r * sep_r) THEN rest
          ELSE <<rest[1] + Rnd(dx * force, d), rest[2] + Rnd(dy * force, d)>>

\* the steering of one adversary without the wall tests
SteerGhost_unchecked(g, sp, gp, k, gi, dt, jit) ==
  LET gs == sp[gi]
      t == gs.anim_time + dt
      angle == Rnd(g.time * 60, Scale) + Rnd(k * phase, Scale)
      target_x == g.player.x + Rnd(Cos(angle) * scatter_r, Scale)
      target_y == g.player.y + Rnd(Sin(angle) * scatter_r, Scale)
      vx0 == target_x - gs.x
      vy0 == target_y - gs.y
      vlen == Max(Sqrt(vx0 * vx0 + vy0 * vy0), 1)
      vx == Rnd(vx0 * Scale, vlen)
      vy == Rnd(vy0 * Scale, vlen)
      rep == Repulsion(sp, gp, gi, 1)
      fx0 == vx + Rnd(12 * rep[1], 10) + jit[1]
      fy0 == vy + Rnd(12 * rep[2], 10) + jit[2]
      flen == Max(Sqrt(fx0 * fx0 + fy0 * fy0), 1)
      fx == Rnd(fx0 * Scale, flen)
      fy == Rnd(fy0 * Scale, flen)
      nx == gs.x + Rnd(fx * speed * dt, Scale * Scale)
      ny == gs.y + Rnd(fy * speed * dt, Scale * Scale)
      x1 == nx
      y1 == ny
  IN [gs EXCEPT !.anim_time = IF t > 30 THEN 0 ELSE t,
                !.anim_frame = IF t > 30 THEN (gs.anim_frame + 1) % 2 ELSE gs.anim_frame,
                !.x = x1, !.y = y1]

\* body of the steering loop for the k-th adversary (k from 0), which is at
\* registry index gi: its animation and its move; sp is the registry as
\* it was when ghost_positions was taken, jit the jitter the rng returns
SteerGhost(g, sp, gp, k, gi, dt, jit) ==
  LET gs == sp[gi]
      t == gs.anim_time + dt
      angle == Rnd(g.time * 60, Scale) + Rnd(k * phase, Scale)
      target_x == g.player.x + Rnd(Cos(angle) * scatter_r, Scale)
      target_y == g.player.y + Rnd(Sin(angle) * scatter_r, Scale)
      vx0 == target_x - gs.x
      vy0 == target_y - gs.y
      vlen == Max(Sqrt(vx0 * vx0 + vy0 * vy0), 1)
      vx == Rnd(vx0 * Scale, vlen)
      vy == Rnd(vy0 * Scale, vlen)
      rep == Repulsion(sp, gp, gi, 1)
      fx0 == vx + Rnd(12 * rep[1], 10) + jit[1]
      fy0 == vy + Rnd(12 * rep[2], 10) + jit[2]
      flen == Max(Sqrt(fx0 * fx0 + fy0 * fy0), 1)
      fx == Rnd(fx0 * Scale, flen)
      fy == Rnd(fy0 * Scale, flen)
      nx == gs.x + Rnd(fx * speed * dt, Scale * Scale)
      ny == gs.y + Rnd(fy * speed * dt, Scale * Scale)
      x1 == IF ~is_wall_level(g.level, nx, gs.y) THEN nx ELSE gs.x
      y1 == IF ~is_wall_level(g.level, x1, ny) THEN ny ELSE gs.y
  IN [gs EXCEPT !.anim_time = IF t > 30 THEN 0 ELSE t,
                !.anim_frame = IF t > 30 THEN (gs.anim_frame + 1) % 2 ELSE gs.anim_frame,
                !.x = x1, !.y = y1]

\* the pellet animation of update_sprites
AnimatePellet(s, dt) ==
  LET t == s.anim_time + dt
  IN [s EXCEPT !.anim_time = IF t > 50 THEN 0 ELSE t,
               !.anim_frame = IF t > 50 THEN (s.anim_frame + 1) % 2 ELSE s.anim_frame]

\* Game::update_sprites
update_sprites(g, dt, jit) ==
  LET sp == g.sprites
      gp == ghost_positions(sp)
      rank(i) == Cardinality({ j \in 1..(i - 1) : sp[j].kind = "Ghost" })
  IN [g EXCEPT !.sprites =
        [i \in 1..Len(sp) |->
           IF sp[i].kind = "Pellet" THEN AnimatePellet(sp[i], dt)
           ELSE SteerGhost(g, sp, gp, rank(i), i, dt, jit)]]

(***************************************************************************)
(* game.rs: pickups and hazards                                            *)
(***************************************************************************)
pickup_r == 18   \* 0.18 tiles
hit_r == 30      \* 0.30 tiles
invincible_cooldown == 2 * Scale   \* 2.0 s

Dist2(p, s) == (p.x - s.x) * (p.x - s.x) + (p.y - s.y) * (p.y - s.y)

\* Vec::swap_remove(i), i from 0: the last entry takes the place of entry i
swap_remove(v, i) ==
  IF i + 1 = Len(v) THEN SubSeq(v, 1, i)
  ELSE SubSeq(v, 1, i) \o <<v[Len(v)]>> \o SubSeq(v, i + 2, Len(v) - 1)

\* Vec::remove(i), i from 0
remove(v, i) == SubSeq(v, 1, i) \o SubSeq(v, i + 2, Len(v))

\* the removal without .rev(): from the least index up, each removal shifting
\* the entries the later indices name
RECURSIVE RemoveFwd(_, _)
RemoveFwd(sp, idx) ==
  IF idx = << >> THEN sp
  ELSE IF idx[1] + 1 > Len(sp) THEN RemoveFwd(sp, Tail(idx))
  ELSE RemoveFwd(remove(sp, idx[1]), Tail(idx))

\* collected_indices.drain(..).rev().for_each(|i| sprites.remove(i)): the registry
RECURSIVE RemoveRev(_, _)
RemoveRev(sp, idx) ==
  IF idx = << >> THEN sp
  ELSE RemoveRev(remove(sp, idx[Len(idx)]), SubSeq(idx, 1, Len(idx) - 1))

\* what Vec::drain(..) leaves in the vector it drained: nothing
drain(v) == << >>

\* Game::check_collisions_and_pickups, part 1: pellets in range are collected
collect_pellets(g) ==
  LET sp == g.sprites
      collected_indices ==
        SelectSeq([i \in 1..Len(sp) |-> i - 1],
                  LAMBDA i : /\ sp[i + 1].kind = "Pellet"
                             /\ Dist2(g.player, sp[i + 1]) < pickup_r * pickup_r)
      collected == Len(drain(collected_indices))
  IN IF collected_indices # << >>
     THEN [g EXCEPT !.sprites = RemoveRev(sp, collected_indices),
                    !.pellets_remaining =
                       IF collected > 0
                       THEN (IF @ >= collected THEN @ - collected ELSE 0)
                       ELSE @]
     ELSE g

\* the hazard check with the game ending one hit late
ghost_collision_late_end(g) ==
  LET hit == \E i \in 1..Len(g.sprites) :
                /\ g.sprites[i].kind = "Ghost"
                /\ Dist2(g.player, g.sprites[i]) < hit_r * hit_r
  IN IF g.invincible_time <= 0 /\ g.mode = "Playing" /\ hit
     THEN IF g.lives - 1 >= 0
          THEN [g EXCEPT !.lives = @ - 1,
                         !.player.x = Centre(g.level.spawn[1]),
                         !.player.y = Centre(g.level.spawn[2]),
                         !.invincible_time = invincible_cooldown]
          ELSE [g EXCEPT !.lives = @ - 1, !.mode = "GameOver", !.death_anim_t = 0]
     ELSE g

\* the hazard check without the break: every adversary in range takes a life
ghost_collision_per_ghost(g) ==
  LET hits == Cardinality({ i \in 1..Len(g.sprites) :
                              /\ g.sprites[i].kind = "Ghost"
                              /\ Dist2(g.player, g.sprites[i]) < hit_r * hit_r })
  IN IF g.invincible_time <= 0 /\ g.mode = "Playing" /\ hits > 0
     THEN IF g.lives - hits > 0
          THEN [g EXCEPT !.lives = @ - hits,
                         !.player.x = Centre(g.level.spawn[1]),
                         !.player.y = Centre(g.level.spawn[2]),
                         !.invincible_time = invincible_cooldown]
          ELSE [g EXCEPT !.lives = @ - hits, !.mode = "GameOver", !.death_anim_t = 0]
     ELSE g

\* Game::check_collisions_and_pickups, part 2: an adversary in range takes a life
ghost_collision(g) ==
  LET hit == \E i \in 1..Len(g.sprites) :
                /\ g.sprites[i].kind = "Ghost"
                /\ Dist2(g.player, g.sprites[i]) < hit_r * hit_r
  IN IF g.invincible_time <= 0 /\ g.mode = "Playing" /\ hit
     THEN IF g.lives - 1 > 0
          THEN [g EXCEPT !.lives = @ - 1,
                         !.player.x = Centre(g.level.spawn[1]),
                         !.player.y = Centre(g.level.spawn[2]),
                         !.invincible_time = invincible_cooldown]
          ELSE [g EXCEPT !.lives = @ - 1, !.mode = "GameOver", !.death_anim_t = 0]
     ELSE g

\* Game::check_collisions_and_pickups
check_collisions_and_pickups(g) == ghost_collision(collect_pellets(g))

\* the frame-rate bookkeeping at the head of Game::update
Fps(g, dt) ==
  IF g.fps_acc + dt >= Scale
  THEN [g EXCEPT !.fps = Rnd((g.fps_count + 1) * Scale * Scale, g.fps_acc + dt),
                 !.fps_acc = 0, !.fps_count = 0]
  ELSE [g EXCEPT !.fps_acc = @ + dt, !.fps_count = @ + 1]

\* Game::update in Playing, up to the call of check_collisions_and_pickups
before_collisions(g, dt, jit) ==
  LET g1 == [g EXCEPT !.time = @ + dt,
                      !.invincible_time = IF @ > 0 THEN Max(@ - dt, 0) ELSE @]
      g2 == handle_input(g1, dt)
  IN update_sprites(g2, dt, jit)

\* update with the cooldown running down in Paused too
update_cooldown_runs_paused(g, dt, jit) ==
  LET g0 == Fps(g, dt)
  IN CASE g0.mode = "Menu" -> g0
       [] g0.mode = "Win" -> g0
       [] g0.mode = "GameOver" -> [g0 EXCEPT !.death_anim_t = @ + dt]
       [] g0.mode = "Paused" ->
            [g0 EXCEPT !.invincible_time = IF @ > 0 THEN Max(@ - dt, 0) ELSE @]
       [] g0.mode = "Playing" ->
            LET g4 == check_collisions_and_pickups(before_collisions(g0, dt, jit))
            IN IF g4.pellets_remaining = 0 THEN [g4 EXCEPT !.mode = "Win"] ELSE g4

\* Game::update, dt in 1/Scale s
update(g, dt, jit) ==
  LET g0 == Fps(g, dt)
  IN CASE g0.mode = "Menu" -> g0
       [] g0.mode = "Win" -> g0
       [] g0.mode = "GameOver" -> [g0 EXCEPT !.death_anim_t = @ + dt]
       [] g0.mode = "Paused" -> g0
       [] g0.mode = "Playing" ->
            LET g4 == check_collisions_and_pickups(before_collisions(g0, dt, jit))
            IN IF g4.pellets_remaining = 0 THEN [g4 EXCEPT !.mode = "Win"] ELSE g4

(***************************************************************************)
(* The program: main.rs delivers key events, pointer deltas and frames.    *)
(***************************************************************************)
Set(g) ==
  /\ mode' = g.mode
  /\ level_index' = g.level_index
  /\ player' = g.player
  /\ pressed' = g.pressed
  /\ fps' = g.fps
  /\ fps_acc' = g.fps_acc
  /\ fps_count' = g.fps_count
  /\ sprites' = g.sprites
  /\ pellets_remaining' = g.pellets_remaining
  /\ total_pellets' = g.total_pellets
  /\ lives' = g.lives
  /\ invincible_time' = g.invincible_time
  /\ time' = g.time
  /\ death_anim_t' = g.death_anim_t

\* the Game object is g
Is(g) ==
  /\ mode = g.mode
  /\ level_index = g.level_index
  /\ player = g.player
  /\ pressed = g.pressed
  /\ fps = g.fps
  /\ fps_acc = g.fps_acc
  /\ fps_count = g.fps_count
  /\ sprites = g.sprites
  /\ pellets_remaining = g.pellets_remaining
  /\ total_pellets = g.total_pellets
  /\ lives = g.lives
  /\ invincible_time = g.invincible_time
  /\ time = g.time
  /\ death_anim_t = g.death_anim_t

\* no function is called
NoCall == [fn |-> ""]

NoRet == [done |-> FALSE, val |-> 0]

NoArg == [key |-> "", down |-> FALSE, c |-> <<0, 0>>, dx |-> 0, dt |-> 0, jit |-> <<0, 0>>]

\* the program runs: calls follow one another
Running == pc \in {"run", "cool"}

\* a call is possible while the program runs, and once on a drawn object
Callable == Running \/ pc = "drawn"

\* the record of the call applied to a drawn object
Called(op, a) ==
  /\ pc' = IF Running THEN pc ELSE op
  /\ pre' = IF Running THEN pre ELSE Game
  /\ arg' = IF Running THEN arg ELSE a
  /\ UNCHANGED <<call, ret>>

Held(pr) == { k \in Keys : pr[k] }

Init ==
  /\ \E c \in RngCells(get_level(0)) : Is(new(c))
  /\ pc = "run"
  /\ pre = Game
  /\ arg = NoArg
  /\ played = 0
  /\ last_hit = -1
  /\ call = NoCall
  /\ ret = NoRet

\* the level a key event starts, or -1
Starts(g, key, down) ==
  IF ~down THEN -1
  ELSE IF g.mode = "Menu" /\ key = "Key1" THEN 0
  ELSE IF g.mode = "Menu" /\ key = "Key2" THEN 1
  ELSE IF g.mode = "Menu" /\ key = "Key3" THEN 2
  ELSE IF g.mode = "GameOver" /\ key = "R" THEN g.level_index
  ELSE -1

\* one rng cell suffices when the event builds no registry
Draws(g, key, down) ==
  IF Starts(g, key, down) = -1 THEN {<<1, 1>>}
  ELSE RngCells(get_level(Starts(g, key, down)))

\* the keys main delivers
KeysSent == IF pc = "run" THEN RunKeys ELSE IF pc = "cool" THEN CoolKeys ELSE Keys

\* the frame times main passes
DtSent == IF pc = "run" THEN DtSet ELSE IF pc = "cool" THEN CoolDtSet ELSE AnyDtSet

OnKey ==
  /\ Callable
  /\ \E key \in KeysSent, down \in BOOLEAN :
       /\ Held([pressed EXCEPT ![key] = down]) \in HeldSets
       /\ \E c \in Draws(Game, key, down) :
            /\ Set(on_key(Game, key, down, c))
            /\ Called("on_key", [NoArg EXCEPT !.key = key, !.down = down, !.c = c])
  /\ UNCHANGED <<played, last_hit>>

OnMouseDelta ==
  /\ pc \in {"run", "drawn"}
  /\ \E dx \in DxSet :
       /\ Set(on_mouse_delta(Game, dx))
       /\ Called("on_mouse_delta", [NoArg EXCEPT !.dx = dx])
  /\ UNCHANGED <<played, last_hit>>

Update ==
  /\ Callable
  /\ \E dt \in DtSent, jit \in JitterSet :
       /\ mode = "Playing" => time + dt <= MaxTime
       /\ mode = "GameOver" => death_anim_t + dt <= MaxDeathAnim
       /\ Set(update(Game, dt, jit))
       /\ Called("update", [NoArg EXCEPT !.dt = dt, !.jit = jit])
       /\ played' = IF pc = "cool" /\ mode = "Playing" THEN played + dt ELSE played
  /\ last_hit' = IF pc = "cool" /\ lives' < lives THEN played' ELSE last_hit

\* check_collisions_and_pickups alone, as update calls it, on a drawn object
Pass ==
  /\ pc = "drawn"
  /\ mode = "Playing"
  /\ Set(check_collisions_and_pickups(Game))
  /\ Called("pass", NoArg)
  /\ UNCHANGED <<played, last_hit>>

Next == OnKey \/ OnMouseDelta \/ Update

Spec == Init /\ [][Next]_vars

(***************************************************************************)
(* One call applied to a drawn Game object.  The drawn objects are on a    *)
(* catalog level, with the player next to the level's first pellet, a      *)
(* registry chosen among the sub-registries of Master, and the counters    *)
(* and timers away from the values a level start gives them.               *)
(***************************************************************************)
\* the player of a drawn object: 0.1 tiles right of the pellet b, turned round
DrawnPlayer(b) ==
  [x |-> b.x + 10, y |-> b.y,
   dir_x |-> Scale, dir_y |-> 0, plane_x |-> 0, plane_y |-> -66]

\* an adversary on the player, the pellet b (in pickup range), the pellet far
\* (out of range), a second pellet in pickup range, an adversary in hit range
Master(b, far) ==
  << Sprite(b.x + 10, b.y, "Ghost"),
     b,
     far,
     Sprite(b.x + 20, b.y + 10, "Pellet"),
     Sprite(b.x, b.y + 10, "Ghost") >>

\* the entries of v at the indices in S, in order
SubRegistry(v, S) ==
  LET idx == SelectSeq([i \in 1..Len(v) |-> i], LAMBDA i : i \in S)
  IN [n \in 1..Len(idx) |-> v[idx[n]]]

\* the values pellets_remaining is drawn from: the level's pellet count, which
\* it keeps from the level start on, and under Playing also the number of
\* pellets in the registry
DrawnRemaining(total, m, sp) ==
  IF m = "Win" THEN {0}
  ELSE {total} \cup (IF m = "Playing" THEN {CountKind(sp, "Pellet")} \ {0} ELSE {})

\* the keys a drawn object holds down: none, or W
DrawnHeld == {{}, {"W"}}

Drawn(index, b, total, m, sp, remaining, l, inv, held) ==
  [mode |-> m, level_index |-> index, level |-> get_level(index),
   player |-> DrawnPlayer(b),
   pressed |-> [k \in Keys |-> k \in held],
   fps |-> 0, fps_acc |-> 0, fps_count |-> 0,
   sprites |-> sp,
   pellets_remaining |-> remaining,
   total_pellets |-> total,
   lives |-> IF m = "GameOver" THEN 0 ELSE l,
   invincible_time |-> inv,
   time |-> 3 * Scale,
   death_anim_t |-> IF m = "GameOver" THEN Scale ELSE 0]

\* the first two pellets of the level and its pellet count
LevelPellets(index) ==
  LET ps == Pellets(get_level(index))
  IN [b |-> ps[1], far |-> ps[2], total |-> CountKind(ps, "Pellet")]

DrawnLevels == [index \in 0..2 |-> LevelPellets(index)]

InitAny ==
  /\ \E index \in 0..2, m \in Mode, S \in SUBSET (1..5), l \in 1..3, inv \in {0, Scale} :
       LET lp == DrawnLevels[index]
           sp == SubRegistry(Master(lp.b, lp.far), S)
       IN \E remaining \in DrawnRemaining(lp.total, m, sp), held \in DrawnHeld :
            Is(Drawn(index, lp.b, lp.total, m, sp, remaining, l, inv, held))
  /\ pc = "drawn"
  /\ pre = Game
  /\ arg = NoArg
  /\ played = 0
  /\ last_hit = -1
  /\ call = NoCall
  /\ ret = NoRet

NextAny == OnKey \/ OnMouseDelta \/ Update \/ Pass

SpecAny == InitAny /\ [][NextAny]_vars

(***************************************************************************)
(* Play followed from a level start: frames of several lengths and the     *)
(* pause key.                                                              *)
(***************************************************************************)
InitCool ==
  /\ \E index \in 0..2 : \E c \in RngCells(get_level(index)), c0 \in RngCells(get_level(0)) :
       Is(start_level(new(c0), index, c))
  /\ pc = "cool"
  /\ pre = Game
  /\ arg = NoArg
  /\ played = 0
  /\ last_hit = -1
  /\ call = NoCall
  /\ ret = NoRet

NextCool == OnKey \/ Update

SpecCool == InitCool /\ [][NextCool]_vars

(***************************************************************************)
(* raycaster.rs.  Side distances and wall distances are in 1/Fine tile     *)
(* (1e-4 tile); a depth entry is a pair tiles + fine/Fine, wide enough for *)
(* 1e6.  The pixels of the frame are not part of the model.                *)
(***************************************************************************)
Fine == Scale * Scale

\* f32::INFINITY: above every other value
INFINITY == 2147483647

\* the depth entry of n/Fine tiles, n >= 0
Depth(n) == [tiles |-> n \div Fine, fine |-> n % Fine]

DepthLess(a, b) == a.tiles < b.tiles \/ (a.tiles = b.tiles /\ a.fine < b.fine)

\* f32::max
DepthMax(a, b) == IF DepthLess(a, b) THEN b ELSE a

\* 1e6, the distance of a ray that left the grid
no_hit == [tiles |-> 1000000, fine |-> 0]

\* 1e-4, the least distance stored
min_dist == [tiles |-> 0, fine |-> 1]

\* an entry as DepthBuffer::new leaves it
unset == [tiles |-> INFINITY, fine |-> 0]

\* DepthBuffer::new
DepthBuffer_new(width) == [cols |-> [x \in 0..(width - 1) |-> unset]]

\* the screen width main.rs gives to Game::new and to render
WIDTH == 4

\* a + b in f32, either of them possibly infinite
Plus(a, b) == IF a = INFINITY \/ b = INFINITY THEN INFINITY ELSE a + b

\* part * delta, part > 0 in 1/Scale tile whenever delta is infinite
Times(part, delta) == IF delta = INFINITY THEN INFINITY ELSE Rnd(part * delta, Scale)

\* the while loop without the test of the grid's edge: tile answers for the
\* cells outside
RECURSIVE dda_to_tile(_, _, _, _, _, _, _, _, _)
dda_to_tile(lv, map_x, map_y, side_dist_x, side_dist_y, delta_dist_x, delta_dist_y, step_x, step_y) ==
  LET go_x == side_dist_x < side_dist_y
      mx == IF go_x THEN map_x + step_x ELSE map_x
      my == IF go_x THEN map_y ELSE map_y + step_y
      sx == IF go_x THEN Plus(side_dist_x, delta_dist_x) ELSE side_dist_x
      sy == IF go_x THEN side_dist_y ELSE Plus(side_dist_y, delta_dist_y)
      side == IF go_x THEN 0 ELSE 1
  IN IF tile(lv, mx, my) > 0
     THEN [hit |-> tile(lv, mx, my), side |-> side, map_x |-> mx, map_y |-> my]
     ELSE dda_to_tile(lv, mx, my, sx, sy, delta_dist_x, delta_dist_y, step_x, step_y)

\* the while loop of one column: steps to the next cell until the ray leaves
\* the grid (hit -1) or enters a cell whose tile id is positive
RECURSIVE dda(_, _, _, _, _, _, _, _, _)
dda(lv, map_x, map_y, side_dist_x, side_dist_y, delta_dist_x, delta_dist_y, step_x, step_y) ==
  LET go_x == side_dist_x < side_dist_y
      mx == IF go_x THEN map_x + step_x ELSE map_x
      my == IF go_x THEN map_y ELSE map_y + step_y
      sx == IF go_x THEN Plus(side_dist_x, delta_dist_x) ELSE side_dist_x
      sy == IF go_x THEN side_dist_y ELSE Plus(side_dist_y, delta_dist_y)
      side == IF go_x THEN 0 ELSE 1
  IN IF mx < 0 \/ my < 0 \/ mx >= lv.w \/ my >= lv.h
     THEN [hit |-> -1, side |-> side, map_x |-> mx, map_y |-> my]
     ELSE IF tile(lv, mx, my) > 0
          THEN [hit |-> tile(lv, mx, my), side |-> side, map_x |-> mx, map_y |-> my]
          ELSE dda(lv, mx, my, sx, sy, delta_dist_x, delta_dist_y, step_x, step_y)

\* |num / ray_dir| as a depth entry, num and ray_dir in 1/Scale
AbsQuot(num, ray_dir) ==
  IF ray_dir = 0 THEN (IF num = 0 THEN min_dist ELSE unset)
  ELSE Depth(Rnd(Abs(num) * Fine, Abs(ray_dir)))

\* the column loop up to the end of the walk: the ray of column x, its first
\* side distances and the cell the walk ends on
cast(w, lv, p, x) ==
  LET camera_x == Rnd(2 * x * Scale, w) - Scale
      ray_dir_x == p.dir_x + Rnd(p.plane_x * camera_x, Scale)
      ray_dir_y == p.dir_y + Rnd(p.plane_y * camera_x, Scale)
      map_x == Trunc(p.x)
      map_y == Trunc(p.y)
      delta_dist_x == IF ray_dir_x = 0 THEN INFINITY ELSE Rnd(Scale * Fine, Abs(ray_dir_x))
      delta_dist_y == IF ray_dir_y = 0 THEN INFINITY ELSE Rnd(Scale * Fine, Abs(ray_dir_y))
      step_x == IF ray_dir_x < 0 THEN -1 ELSE 1
      step_y == IF ray_dir_y < 0 THEN -1 ELSE 1
      side_dist_x == IF ray_dir_x < 0 THEN Times(p.x - map_x * Scale, delta_dist_x)
                     ELSE Times((map_x + 1) * Scale - p.x, delta_dist_x)
      side_dist_y == IF ray_dir_y < 0 THEN Times(p.y - map_y * Scale, delta_dist_y)
                     ELSE Times((map_y + 1) * Scale - p.y, delta_dist_y)
  IN [ray_dir_x |-> ray_dir_x, ray_dir_y |-> ray_dir_y,
      delta_dist_x |-> delta_dist_x, delta_dist_y |-> delta_dist_y,
      step_x |-> step_x, step_y |-> step_y,
      r |-> dda(lv, map_x, map_y, side_dist_x, side_dist_y,
                delta_dist_x, delta_dist_y, step_x, step_y)]

\* the column loop up to the distance before .abs().max(1e-4)
wall_dist(w, lv, p, x) ==
  LET c == cast(w, lv, p, x)
      r == c.r
  IN IF r.hit = -1 THEN no_hit
     ELSE IF r.side = 0
          THEN AbsQuot(r.map_x * Scale - p.x + ((1 - c.step_x) * Scale) \div 2, c.ray_dir_x)
          ELSE AbsQuot(r.map_y * Scale - p.y + ((1 - c.step_y) * Scale) \div 2, c.ray_dir_y)

\* the value stored for column x, without the floor of 1e-4
perp_wall_dist_unfloored(w, lv, p, x) == wall_dist(w, lv, p, x)

\* the value stored for column x
perp_wall_dist(w, lv, p, x) == DepthMax(wall_dist(w, lv, p, x), min_dist)

\* the column loop from column x on; out.log lists what was done, in order
RECURSIVE columns(_, _, _, _, _)
columns(w, lv, p, out, x) ==
  IF x >= w THEN out
  ELSE columns(w, lv, p,
               [cols |-> [out.cols EXCEPT ![x] = perp_wall_dist(w, lv, p, x)],
                log |-> Append(out.log, [op |-> "cols", x |-> x])],
               x + 1)

\* render_scene: the column loop, then render_sprites, which only reads depth
render_scene(w, lv, p, depth) ==
  LET out == columns(w, lv, p, [cols |-> depth.cols, log |-> << >>], 0)
  IN [cols |-> out.cols, log |-> Append(out.log, [op |-> "render_sprites", x |-> w])]

\* a / b in f32 rounded to the nearest unit, b of either sign
Quot(a, b) == IF b < 0 THEN Rnd(-a, -b) ELSE Rnd(a, b)

\* the indices of sprites from the farthest to the nearest of p, those at equal
\* distance in the order of the registry (sort_by is stable)
RECURSIVE order(_, _, _)
order(sp, p, left) ==
  IF left = {} THEN << >>
  ELSE LET far == CHOOSE i \in left :
                    \A j \in left :
                       \/ Dist2(sp[i], p) > Dist2(sp[j], p)
                       \/ Dist2(sp[i], p) = Dist2(sp[j], p) /\ i <= j
       IN <<far>> \o order(sp, p, left \ {far})

\* the least forward distance drawn, 0.01 tile, in 1/Fine
near_plane == 100

\* the share of the screen height a sprite takes at distance 1, in percent
sprite_scale(kind) == IF kind = "Pellet" THEN 35 ELSE 90

\* render_sprites without the test against the wall depth
stripes_unoccluded(w, h, p, s, i, depth) ==
  LET det == p.plane_x * p.dir_y - p.dir_x * p.plane_y
      sprite_x == s.x - p.x
      sprite_y == s.y - p.y
      transform_x == Quot((p.dir_y * sprite_x - p.dir_x * sprite_y) * Fine, det)
      transform_y == Quot((p.plane_x * sprite_y - p.plane_y * sprite_x) * Fine, det)
  IN IF transform_y <= near_plane THEN << >>
     ELSE LET sprite_screen_x == Trunc((w * (transform_y + transform_x) * (Scale \div 2))
                                       \div transform_y)
              sprite_h == (h * Fine * sprite_scale(s.kind)) \div (transform_y * Scale)
              draw_start_x == Max(sprite_screen_x - sprite_h \div 2, 0)
              draw_end_x == Min(sprite_h \div 2 + sprite_screen_x, w - 1)
              cs == [n \in 1..(draw_end_x - draw_start_x + 1) |-> draw_start_x + n - 1]
          IN [n \in 1..Len(cs) |-> [sprite |-> i, stripe |-> cs[n], transform_y |-> transform_y]]

\* render_sprites, body of the loop for sprite s, the i-th of the registry: the
\* stripes whose pixel loop runs (the shape of the sprite decides the rows)
stripes(w, h, p, s, i, depth) ==
  LET det == p.plane_x * p.dir_y - p.dir_x * p.plane_y
      sprite_x == s.x - p.x
      sprite_y == s.y - p.y
      transform_x == Quot((p.dir_y * sprite_x - p.dir_x * sprite_y) * Fine, det)
      transform_y == Quot((p.plane_x * sprite_y - p.plane_y * sprite_x) * Fine, det)
  IN IF transform_y <= near_plane THEN << >>
     ELSE LET sprite_screen_x == Trunc((w * (transform_y + transform_x) * (Scale \div 2))
                                       \div transform_y)
              sprite_h == (h * Fine * sprite_scale(s.kind)) \div (transform_y * Scale)
              draw_start_x == Max(sprite_screen_x - sprite_h \div 2, 0)
              draw_end_x == Min(sprite_h \div 2 + sprite_screen_x, w - 1)
              cs == SelectSeq([n \in 1..(draw_end_x - draw_start_x + 1) |-> draw_start_x + n - 1],
                              LAMBDA c : DepthLess(Depth(transform_y), depth.cols[c]))
          IN [n \in 1..Len(cs) |-> [sprite |-> i, stripe |-> cs[n], transform_y |-> transform_y]]

\* render_sprites: the stripes drawn, in the order they are drawn
RECURSIVE draw_in_order(_, _, _, _, _, _)
draw_in_order(w, h, p, sp, depth, ord) ==
  IF ord = << >> THEN << >>
  ELSE stripes(w, h, p, sp[Head(ord)], Head(ord), depth)
         \o draw_in_order(w, h, p, sp, depth, Tail(ord))

render_sprites(w, h, p, sp, depth) ==
  draw_in_order(w, h, p, sp, depth, order(sp, p, 1..Len(sp)))

(***************************************************************************)
(* The frame: pixel y*w + x holds the name of the pass that wrote it last,  *)
(* "stale" for a pixel of the previous frame.  The passes modelled are the  *)
(* backgrounds, the wall strips and the rectangles of rect_fill; text, the  *)
(* sprites and the minimap write inside the frame over these.               *)
(***************************************************************************)
\* the screen height main.rs gives to render
HEIGHT == 3

\* the frame pixels hands to render, before the call
StaleFrame(w, h) == [i \in 0..(w * h - 1) |-> "stale"]

Paint(frame, pixels, pass) ==
  [i \in DOMAIN frame |-> IF i \in pixels THEN pass ELSE frame[i]]

\* the pixels of rows ys and columns xs
Pixels(w, ys, xs) == { y * w + x : y \in ys, x \in xs }

\* fill
fill(frame, w, h, pass) ==
  Paint(frame, Pixels(w, 0..(h - 1), 0..(w - 1)), pass)

\* rect_fill
rect_fill(frame, w, h, x, y, rw, rh, pass) ==
  Paint(frame, Pixels(w, Max(y, 0)..(Min(y + rh, h) - 1), Max(x, 0)..(Min(x + rw, w) - 1)), pass)

\* draw_ceiling_floor whose floor pass covers as many rows as the ceiling pass
draw_ceiling_floor_halves(frame, w, h) ==
  LET half == h \div 2
      sky == Paint(frame, Pixels(w, 0..(half - 1), 0..(w - 1)), "ceiling")
  IN Paint(sky, Pixels(w, half..(2 * half - 1), 0..(w - 1)), "floor")

\* draw_ceiling_floor
draw_ceiling_floor(frame, w, h) ==
  LET half == h \div 2
      sky == Paint(frame, Pixels(w, 0..(half - 1), 0..(w - 1)), "ceiling")
  IN Paint(sky, Pixels(w, half..(h - 1), 0..(w - 1)), "floor")

\* (h as f32 / perp_wall_dist) as i32
line_height(h, d) ==
  IF d.tiles > h THEN 0 ELSE (h * Fine) \div (d.tiles * Fine + d.fine)

\* the strip of column x: rows draw_start..=draw_end
RECURSIVE wall_strips(_, _, _, _, _)
wall_strips(frame, w, h, cols, x) ==
  IF x >= w THEN frame
  ELSE LET lh == line_height(h, cols[x])
           draw_start == Max(h \div 2 - lh \div 2, 0)
           draw_end == Min(lh \div 2 + h \div 2, h - 1)
       IN wall_strips(Paint(frame, Pixels(w, draw_start..draw_end, {x}), "wall"),
                      w, h, cols, x + 1)

\* Game::render_game: render_scene (background, wall strips), the squares of
\* the lives, the flash of the cooldown
render_game(g, frame, w, h) ==
  LET back == draw_ceiling_floor(frame, w, h)
      scene == render_scene(w, g.level, g.player, DepthBuffer_new(w))
      walls == wall_strips(back, w, h, scene.cols, 0)
      hud == rect_fill(walls, w, h, 70, 50, 6 * Max(g.lives, 0), 6, "lives")
  IN IF g.invincible_time > 0 THEN rect_fill(hud, w, h, 0, 0, w, h, "flash") ELSE hud

\* Game::render
render(g, frame, w, h) ==
  CASE g.mode = "Menu" -> fill(frame, w, h, "menu")
    [] g.mode = "Playing" -> render_game(g, frame, w, h)
    [] g.mode = "Paused" ->
         rect_fill(render_game(g, frame, w, h), w, h, 0, 0, w, h, "pause")
    [] g.mode = "Win" -> fill(frame, w, h, "win")
    [] g.mode = "GameOver" ->
         rect_fill(fill(frame, w, h, "game_over"), w, h, 0, 0, w, h, "fade")

(***************************************************************************)
(* The indices render_scene uses: frame holds w*h*4 bytes, four for each    *)
(* pixel, and depth.cols holds as many entries as DepthBuffer::new was      *)
(* given.  An index outside the slice or the Vec is a panic in Rust; here   *)
(* it is an element of the set of indices used.                             *)
(***************************************************************************)
\* the bytes idx..idx + 4 of pixel (x, y), idx = (y * w + x) * 4
Bytes(w, x, y) == { (y * w + x) * 4 + k : k \in 0..3 }

\* the rows of the strip of a wall at distance d
strip_rows(h, d) ==
  LET lh == line_height(h, d)
  IN [draw_start |-> Max(-(lh \div 2) + h \div 2, 0),
      draw_end |-> Min(lh \div 2 + h \div 2, h - 1)]

\* the forward distance of sprite s in 1/Fine, the screen column of its
\* middle and its height in pixels
project(w, h, p, s) ==
  LET det == p.plane_x * p.dir_y - p.dir_x * p.plane_y
      sprite_x == s.x - p.x
      sprite_y == s.y - p.y
      transform_x == Quot((p.dir_y * sprite_x - p.dir_x * sprite_y) * Fine, det)
      transform_y == Quot((p.plane_x * sprite_y - p.plane_y * sprite_x) * Fine, det)
  IN IF transform_y <= near_plane
     THEN [transform_y |-> transform_y, sprite_screen_x |-> 0, sprite_h |-> 0]
     ELSE [transform_y |-> transform_y,
           sprite_screen_x |-> Trunc((w * (transform_y + transform_x) * (Scale \div 2))
                                     \div transform_y),
           sprite_h |-> (h * Fine * sprite_scale(s.kind)) \div (transform_y * Scale)]

\* the rows and the columns of a sprite whose right edge is not cut at w - 1
sprite_extent_uncut(w, h, sprite_screen_x, sprite_h) ==
  [draw_start_y |-> Max(-(sprite_h \div 2) + h \div 2, 0),
   draw_end_y |-> Min(sprite_h \div 2 + h \div 2, h - 1),
   draw_start_x |-> Max(-(sprite_h \div 2) + sprite_screen_x, 0),
   draw_end_x |-> sprite_h \div 2 + sprite_screen_x]

\* the rows and the columns the loops of a sprite run over
sprite_extent(w, h, sprite_screen_x, sprite_h) ==
  [draw_start_y |-> Max(-(sprite_h \div 2) + h \div 2, 0),
   draw_end_y |-> Min(sprite_h \div 2 + h \div 2, h - 1),
   draw_start_x |-> Max(-(sprite_h \div 2) + sprite_screen_x, 0),
   draw_end_x |-> Min(sprite_h \div 2 + sprite_screen_x, w - 1)]

\* the indices the loops of sprite s use: depth.cols[stripe] is read for every
\* stripe; the pixel loop runs for the stripes in front of the wall, and the
\* shape of the sprite leaves rows out of it, never adds one
sprite_accesses(w, h, p, s, depth) ==
  LET v == project(w, h, p, s)
  IN IF v.transform_y <= near_plane THEN [frame |-> {}, depth |-> {}]
     ELSE LET e == sprite_extent(w, h, v.sprite_screen_x, v.sprite_h)
              xs == e.draw_start_x..e.draw_end_x
              seen == { c \in xs : /\ c \in DOMAIN depth.cols
                                    /\ DepthLess(Depth(v.transform_y), depth.cols[c]) }
          IN [frame |-> UNION { Bytes(w, c, y) : c \in seen,
                                                 y \in e.draw_start_y..e.draw_end_y },
              depth |-> xs]

\* the indices of one call of render_scene: the background, then for each
\* column its strip and depth.cols[x], then the sprites
scene_accesses(w, h, lv, p, sp) ==
  LET scene == render_scene(w, lv, p, DepthBuffer_new(w))
      back == UNION { Bytes(w, x, y) : x \in 0..(w - 1), y \in 0..(h - 1) }
      rows == [x \in 0..(w - 1) |-> strip_rows(h, scene.cols[x])]
      each == [i \in 1..Len(sp) |-> sprite_accesses(w, h, p, sp[i], scene)]
  IN [back |-> back,
      wall |-> UNION { UNION { Bytes(w, x, y) : y \in rows[x].draw_start..rows[x].draw_end }
                       : x \in 0..(w - 1) },
      sprite |-> UNION { each[i].frame : i \in 1..Len(sp) },
      cols |-> 0..(w - 1),
      stripe |-> UNION { each[i].depth : i \in 1..Len(sp) }]

(***************************************************************************)
(* audio.rs.  am is the AudioManager: stream_handle is TRUE when            *)
(* OutputStream::try_default gave a device, music_sink is "None" or the     *)
(* path being looped.  env holds the outcomes of the calls into std and     *)
(* rodio: file is what File::open(path) and Decoder::new meet, sink whether *)
(* Sink::try_new succeeds.                                                  *)
(***************************************************************************)
FileOutcome == {"missing", "undecodable", "decodable"}

\* AudioManager::new
AudioManager_new(device) == [stream_handle |-> device, music_sink |-> "None"]

\* AudioManager::play_music_loop; Decoder::new(..).unwrap() panics on Err
play_music_loop(am, path, env) ==
  IF am.stream_handle /\ env.file # "missing" /\ env.sink
  THEN IF env.file = "undecodable"
       THEN [status |-> "panicked", am |-> am, heard |-> << >>]
       ELSE [status |-> "returned", am |-> [am EXCEPT !.music_sink = path],
             heard |-> <<path>>]
  ELSE [status |-> "returned", am |-> am, heard |-> << >>]

\* AudioManager::play_sfx
play_sfx(am, path, env) ==
  IF am.stream_handle /\ env.file = "decodable" /\ env.sink
  THEN [status |-> "returned", am |-> am, heard |-> <<path>>]
  ELSE [status |-> "returned", am |-> am, heard |-> << >>]

(***************************************************************************)
(* One function applied to drawn arguments.  The levels are the catalog    *)
(* and Level values outside it.                                            *)
(***************************************************************************)
gamevars == <<mode, level_index, player, pressed, fps, fps_acc, fps_count,
              sprites, pellets_remaining, total_pellets, lives, invincible_time,
              time, death_anim_t, pc, pre, arg, played, last_hit>>

\* the cells inside the border ring of a w x h grid
Interior(w, h) == (1..(w - 2)) \X (1..(h - 2))

\* a Level whose cells are open (0) on the set open and walls (1) elsewhere
MkLevel(w, h, open, spawn, ghost_count) ==
  [w |-> w, h |-> h,
   map |-> [i \in 0..(w * h - 1) |-> IF <<i % w, i \div w>> \in open THEN 0 ELSE 1],
   spawn |-> spawn, ghost_count |-> ghost_count]

\* 24 x 16, an open interior inside a wall ring; the spawn is on the modulus pattern
Ring == MkLevel(24, 16, Interior(24, 16), <<3, 1>>, 3)

\* 8 x 8, an open interior with one wall at cell (6, 5)
Room == MkLevel(8, 8, Interior(8, 8) \ {<<6, 5>>}, <<1, 1>>, 2)

\* 4 x 3: the spawn and one more open cell, neither on the modulus pattern
Dense == MkLevel(4, 3, {<<1, 1>>, <<2, 1>>}, <<1, 1>>, 1)

\* 3 x 3: the spawn and an opening in the border
Gap == MkLevel(3, 3, {<<1, 1>>, <<1, 0>>}, <<1, 1>>, 1)

\* 3 x 3: the spawn alone is open
Sealed == MkLevel(3, 3, {<<1, 1>>}, <<1, 1>>, 1)

\* 4 x 3: Dense with an opening in the border
Porch == MkLevel(4, 3, {<<1, 0>>, <<1, 1>>, <<2, 1>>}, <<1, 1>>, 1)

Levels == <<level1, level2, level3, Ring, Room, Dense, Gap, Sealed, Porch>>

\* the coordinates tile is called with: around 0 and around n
Around(n) == {-2, -1, 0, 1, 2, n - 2, n - 1, n, n + 1}

\* the indices get_level is called with
IdxSet == 0..5

\* the cells the rng returns to build_sprites_for_level: a window of the interior
DrawCells(lv) == { c \in InteriorCells(lv) : c[1] <= 2 /\ c[2] <= 2 }

\* the budgets of one adversary: up to n cells
Budgets(lv, n) == UNION { [1..m -> DrawCells(lv)] : m \in 1..n }

\* the first adversary draws b1, every other adversary b2
BudgetsOf(lv, b1, b2) == [k \in 1..lv.ghost_count |-> IF k = 1 THEN b1 ELSE b2]

Returned(v) ==
  /\ ret' = [done |-> TRUE, val |-> v]
  /\ UNCHANGED call
  /\ UNCHANGED gamevars

Calling(fn) == pc = "fn" /\ call.fn = fn /\ ~ret.done

CallTile == Calling("tile") /\ Returned(tile(Levels[call.lv], call.x, call.y))

CallGetLevel == Calling("get_level") /\ Returned(get_level(call.idx))

CallBuildSprites ==
  /\ Calling("build_sprites_for_level")
  /\ Returned(build_sprites_from(Levels[call.lv],
                                 BudgetsOf(Levels[call.lv], call.b1, call.b2)))

\* a Game on level lv with the player at (x, y)
GameAt(lv, x, y) ==
  [Game EXCEPT !.level = lv, !.player.x = x, !.player.y = y]

\* the player positions and displacements offered to try_move
PosSet == {150, 450, 500, 580}
DispSet == {-120, 0, 60, 120}

\* the coordinates offered to the wall tests of a level n tiles wide or high
Coords(n) ==
  {-150, -50, 0, 50, 150, 250, n * Scale - 50, n * Scale, n * Scale + 50}

CallTryMove ==
  /\ Calling("try_move")
  /\ LET g == try_move(GameAt(Levels[call.lv], call.px, call.py), call.dx, call.dy)
     IN Returned(<<g.player.x, g.player.y>>)

\* both wall tests on the same point of the same level
CallWallTests ==
  /\ Calling("is_wall")
  /\ Returned([player |-> is_wall(GameAt(Levels[call.lv], 0, 0), call.x, call.y),
               adversary |-> is_wall_level(Levels[call.lv], call.x, call.y)])

\* the coordinates and the rotations of the player offered to render_scene
ViewSet == {100, 101, 150, 250}
TurnSet == {0, 79, 157, 236, 314, 471}

\* the player of a new Game at (x, y), turned by angle
ViewFrom(x, y, angle) ==
  rotate(GameAt(level1, x, y), angle).player

\* Game::render_game on the buffer Game::new made, both with the width of main.rs
CallRenderScene ==
  /\ Calling("render_scene")
  /\ Returned(render_scene(WIDTH, Levels[call.lv],
                           ViewFrom(call.px, call.py, call.angle),
                           DepthBuffer_new(WIDTH)))

\* Game::start_level's call, on the manager Game::new made
CallPlayMusicLoop ==
  /\ Calling("play_music_loop")
  /\ Returned(play_music_loop(AudioManager_new(call.device), "assets/music/theme.ogg",
                              [file |-> call.file, sink |-> call.sink]))

\* the call of a pickup, a hit, a win or a game over
CallPlaySfx ==
  /\ Calling("play_sfx")
  /\ Returned(play_sfx(AudioManager_new(call.device), "assets/sfx/hit.wav",
                       [file |-> call.file, sink |-> call.sink]))

\* the places of the sprites and of the player offered to render_sprites, on
\* the room with a wall at (6,5)
SpotSet ==
  {<<650, 450>>, <<650, 650>>, <<750, 550>>, <<350, 550>>, <<450, 450>>, <<450, 560>>}
EyeSet == {<<450, 550>>, <<550, 450>>}

\* render_scene's call of render_sprites, on the depth its column loop stored
CallRenderSprites ==
  /\ Calling("render_sprites")
  /\ LET p == ViewFrom(call.eye[1], call.eye[2], call.angle)
         depth == render_scene(WIDTH, Room, p, DepthBuffer_new(WIDTH))
         sp == << Sprite(call.s1[1], call.s1[2], "Ghost"),
                  Sprite(call.s2[1], call.s2[2], "Pellet") >>
     IN Returned([cols |-> depth.cols, sprites |-> sp, p |-> p,
                  drawn |-> render_sprites(WIDTH, HEIGHT, p, sp, depth)])

\* Game::render_game's call of render_scene on a frame of w*h*4 bytes and the
\* buffer Game::new made for w
CallSceneAccesses ==
  /\ Calling("scene_accesses")
  /\ LET p == ViewFrom(call.eye[1], call.eye[2], call.angle)
         sp == << Sprite(call.s1[1], call.s1[2], "Ghost"),
                  Sprite(call.s2[1], call.s2[2], "Pellet") >>
     IN Returned([p |-> p, sprites |-> sp,
                  cols |-> render_scene(WIDTH, Room, p, DepthBuffer_new(WIDTH)).cols,
                  used |-> scene_accesses(WIDTH, HEIGHT, Room, p, sp)])

\* the walk of column x of a frame of render_scene
CallCast ==
  /\ Calling("cast")
  /\ Returned(cast(WIDTH, Levels[call.lv], ViewFrom(call.px, call.py, call.angle),
                   call.x))

\* a Game in mode m on level lv, seen from (x, y) turned by angle
Shown(m, lv, x, y, angle, inv) ==
  [GameAt(lv, x, y) EXCEPT !.mode = m, !.player = ViewFrom(x, y, angle),
                           !.invincible_time = inv]

\* main's call of Game::render on the frame of the frame before
CallRender ==
  /\ Calling("render")
  /\ Returned(render(Shown(call.mode, Levels[call.lv], call.px, call.py,
                           call.angle, call.inv),
                     StaleFrame(WIDTH, HEIGHT), WIDTH, HEIGHT))

InitFn ==
  /\ Is(new(<<2, 2>>))
  /\ pc = "fn"
  /\ pre = Game
  /\ arg = NoArg
  /\ played = 0
  /\ last_hit = -1
  /\ ret = NoRet
  /\ \/ \E lv \in 1..Len(Levels) :
          \E x \in Around(Levels[lv].w), y \in Around(Levels[lv].h) :
             call = [fn |-> "tile", lv |-> lv, x |-> x, y |-> y]
     \/ \E idx \in IdxSet : call = [fn |-> "get_level", idx |-> idx]
     \/ \E lv \in 1..Len(Levels) :
          \E b1 \in Budgets(Levels[lv], MaxDraws), b2 \in Budgets(Levels[lv], 1) :
             call = [fn |-> "build_sprites_for_level", lv |-> lv, b1 |-> b1, b2 |-> b2]
     \/ \E lv \in {4, 5} :
          \E px \in PosSet, py \in PosSet, dx \in DispSet, dy \in DispSet :
             call = [fn |-> "try_move", lv |-> lv, px |-> px, py |-> py,
                     dx |-> dx, dy |-> dy]
     \/ \E lv \in 1..Len(Levels) :
          \E x \in Coords(Levels[lv].w), y \in Coords(Levels[lv].h) :
             call = [fn |-> "is_wall", lv |-> lv, x |-> x, y |-> y]
     \/ \E lv \in {1, 3, 5, 7, 9} :
          \E px \in ViewSet, py \in ViewSet, angle \in TurnSet :
             call = [fn |-> "render_scene", lv |-> lv, px |-> px, py |-> py,
                     angle |-> angle]
     \/ \E m \in Mode, lv \in {5, 7}, px \in {100, 150}, angle \in TurnSet,
           inv \in {0, Scale} :
          call = [fn |-> "render", mode |-> m, lv |-> lv, px |-> px, py |-> 150,
                  angle |-> angle, inv |-> inv]
     \/ \E lv \in {1, 3, 5, 7, 9} :
          \E px \in ViewSet, py \in ViewSet, angle \in TurnSet, x \in 0..(WIDTH - 1) :
             call = [fn |-> "cast", lv |-> lv, px |-> px, py |-> py,
                     angle |-> angle, x |-> x]
     \/ \E eye \in EyeSet, angle \in TurnSet, s1 \in SpotSet, s2 \in SpotSet :
          call = [fn |-> "render_sprites", eye |-> eye, angle |-> angle,
                  s1 |-> s1, s2 |-> s2]
     \* render_scene on the room: the player in the open or a fifth of a tile
     \* from the wall at (6,5); each sprite at the eye, a step from it, across
     \* the room, in the wall or outside the grid
     \/ \E eye \in {<<450, 550>>, <<580, 550>>}, angle \in TurnSet :
          \E s1, s2 \in {<<450, 550>>, <<448, 550>>, <<452, 551>>, <<582, 550>>,
                         <<578, 549>>, <<350, 550>>, <<650, 550>>, <<-150, 550>>,
                         <<550, 950>>} :
             call = [fn |-> "scene_accesses", eye |-> eye, angle |-> angle,
                     s1 |-> s1, s2 |-> s2]
     \/ \E fn \in {"play_music_loop", "play_sfx"} :
          \E device \in BOOLEAN, file \in FileOutcome, sink \in BOOLEAN :
             call = [fn |-> fn, device |-> device, file |-> file, sink |-> sink]

NextFn ==
  CallTile \/ CallGetLevel \/ CallBuildSprites \/ CallTryMove \/ CallWallTests
  \/ CallRenderScene \/ CallPlayMusicLoop \/ CallPlaySfx \/ CallRender
  \/ CallCast \/ CallRenderSprites \/ CallSceneAccesses

SpecFn == InitFn /\ [][NextFn]_vars

(***************************************************************************)
(* Properties.                                                             *)
(***************************************************************************)
\* the number of pellets in a registry
PelletCount(sp) == Cardinality({ i \in 1..Len(sp) : sp[i].kind = "Pellet" })

\* this step delivers the key-down of key and is no frame
KeyDownOf(key) == pressed' = [pressed EXCEPT ![key] = TRUE] /\ time' \in {time, 0}

\* this step is an update in Playing: only update advances the game time
PlayingFrame == mode = "Playing" /\ time' > time

\* the mode changes the state machine allows, each with the event that makes it
AllowedModeChange ==
  \/ mode = "Menu" /\ mode' = "Playing" /\ \E key \in {"Key1", "Key2", "Key3"} : KeyDownOf(key)
  \/ mode = "Playing" /\ mode' = "Paused" /\ KeyDownOf("P")
  \/ mode = "Paused" /\ mode' = "Playing" /\ KeyDownOf("P")
  \/ mode = "Paused" /\ mode' = "Menu" /\ KeyDownOf("Return")
  \/ mode = "Win" /\ mode' = "Menu" /\ KeyDownOf("Return")
  \/ mode = "GameOver" /\ mode' = "Playing" /\ KeyDownOf("R")
  \/ mode = "GameOver" /\ mode' = "Menu" /\ KeyDownOf("Return")
  \/ PlayingFrame /\ mode' \in {"Win", "GameOver"} /\ pressed' = pressed

\* C1: the mode starts as Menu, and every change of mode is one of Menu->Playing
\* (key-down of 1, 2 or 3), Playing->Paused and Paused->Playing (key-down of P),
\* Paused->Menu, Win->Menu and GameOver->Menu (key-down of Return),
\* GameOver->Playing (key-down of R), and Playing->Win or Playing->GameOver inside
\* update; no key-up, other key or pointer delta changes the mode.
C1_ModeChanges == mode = "Menu" /\ [][mode' # mode => AllowedModeChange]_vars

\* C1 witness: the game went Menu -> Playing -> GameOver -> Menu
C1_Witness == mode = "Menu" /\ lives = 0 /\ death_anim_t > 0

\* C2 as the specification words it: an update in Playing that collects every
\* pellet still in the registry returns with pellets_remaining 0 and mode Win.
C2_AllCollectedWins ==
  (/\ pc = "update"
   /\ pre.mode = "Playing"
   /\ PelletCount(pre.sprites) > 0
   /\ PelletCount(sprites) = 0)
  => (pellets_remaining = 0 /\ mode = "Win")

\* C3 as the specification words it: every update in Playing lowers
\* pellets_remaining by the number of pellets it removed from the registry,
\* floored at zero.
C3_RemainingFollowsCollected ==
  [][PlayingFrame =>
       pellets_remaining' =
         Max(pellets_remaining - (PelletCount(sprites) - PelletCount(sprites')), 0)]_vars

\* an entity the pickup pass keeps: any adversary, and any pellet at squared
\* distance 0.18^2 or more from the player at (px, py)
Kept(px, py, e) ==
  ~ (/\ e.kind = "Pellet"
     /\ (px - e.x) * (px - e.x) + (py - e.y) * (py - e.y) < 18 * 18)

\* C4: one pass of check_collisions_and_pickups removes from the registry exactly
\* the pellets at squared distance below 0.18^2 from the player, each once, and
\* keeps every other entity unchanged and in order.
C4_PassRemovesInRange ==
  pc = "pass" =>
    sprites = SelectSeq(pre.sprites, LAMBDA e : Kept(pre.player.x, pre.player.y, e))

\* C4 witness: a pass over a registry of five removed the two pellets in range
C4_Witness == pc = "pass" /\ Len(pre.sprites) = 5 /\ Len(sprites) = 3

\* C5: in Menu, Paused and Win, update and on_mouse_delta leave the player pose,
\* the registry, lives, pellets_remaining, invincible_time and the game time
\* unchanged; in GameOver too, except that update advances the death-animation
\* timer by dt.
C5_FrozenOutsidePlaying ==
  (pc \in {"update", "on_mouse_delta"} /\ pre.mode # "Playing") =>
    /\ player = pre.player
    /\ sprites = pre.sprites
    /\ lives = pre.lives
    /\ pellets_remaining = pre.pellets_remaining
    /\ invincible_time = pre.invincible_time
    /\ time = pre.time
    /\ death_anim_t = IF pre.mode = "GameOver" /\ pc = "update"
                      THEN pre.death_anim_t + arg.dt ELSE pre.death_anim_t

\* C5 witness: update ran on a paused game with adversaries and a running cooldown
C5_Witness ==
  /\ pc = "update" /\ pre.mode = "Paused" /\ fps_count = 1
  /\ Len(sprites) = 5 /\ invincible_time > 0

\* the level start_level is called with by the key event of a call, or -1
StartedLevel ==
  IF pc = "on_key" /\ arg.down
  THEN IF pre.mode = "Menu" /\ arg.key = "Key1" THEN 0
       ELSE IF pre.mode = "Menu" /\ arg.key = "Key2" THEN 1
       ELSE IF pre.mode = "Menu" /\ arg.key = "Key3" THEN 2
       ELSE IF pre.mode = "GameOver" /\ arg.key = "R" THEN pre.level_index
       ELSE -1
  ELSE -1

\* C6: after start_level(i), by a digit key in Menu or by R in GameOver, mode is
\* Playing, lives 3, invincible_time 0, game time 0, death-animation timer 0,
\* pellets_remaining = total_pellets = the number of pellets in the registry, the
\* player is at spawn + (0.5, 0.5) and heading and plane are (-1, 0) and (0, 0.66).
C6_StartLevelResets ==
  StartedLevel # -1 =>
    /\ level_index = StartedLevel
    /\ mode = "Playing"
    /\ lives = 3
    /\ invincible_time = 0
    /\ time = 0
    /\ death_anim_t = 0
    /\ pellets_remaining = total_pellets
    /\ total_pellets = PelletCount(sprites)
    /\ player.x = Scale * get_level(StartedLevel).spawn[1] + 50
    /\ player.y = Scale * get_level(StartedLevel).spawn[2] + 50
    /\ <<player.dir_x, player.dir_y>> = <<-Scale, 0>>
    /\ <<player.plane_x, player.plane_y>> = <<0, 66>>

\* C6 witness: R restarted level 2 from GameOver
C6_Witness ==
  /\ pc = "on_key" /\ pre.mode = "GameOver" /\ arg.key = "R" /\ arg.down
  /\ pre.lives = 0 /\ pre.level_index = 1 /\ mode = "Playing"

\* the Game object on which the call ran its hazard check
AtCheck ==
  IF pc = "pass" THEN collect_pellets(pre)
  ELSE collect_pellets(before_collisions(Fps(pre, arg.dt), arg.dt, arg.jit))

\* an adversary of g is within the hit radius 0.30 of the player of g
AdversaryInRange(g) ==
  \E i \in 1..Len(g.sprites) :
     /\ g.sprites[i].kind = "Ghost"
     /\ (g.player.x - g.sprites[i].x) * (g.player.x - g.sprites[i].x)
          + (g.player.y - g.sprites[i].y) * (g.player.y - g.sprites[i].y) < 30 * 30

\* the call ran the hazard check in Playing
Checked == pc \in {"pass", "update"} /\ pre.mode = "Playing"

\* C7: mode Playing, lives 1, invincible_time 0 and an adversary within 0.30 of
\* the player when the hazard check runs: after the update mode is GameOver and
\* lives is 0.
C7_LastLifeEndsGame ==
  (/\ Checked
   /\ pre.lives = 1
   /\ AtCheck.invincible_time = 0
   /\ AdversaryInRange(AtCheck))
  => (mode = "GameOver" /\ lives = 0)

\* C7 witness: an update whose frame time used up the cooldown took the last life
C7_Witness ==
  /\ pc = "update" /\ pre.mode = "Playing" /\ pre.lives = 1
  /\ pre.invincible_time > 0 /\ mode = "GameOver"

\* the hazard check of the call found a hit
Hit == Checked /\ AtCheck.invincible_time <= 0 /\ AdversaryInRange(AtCheck)

\* C8: a hit with lives >= 2 takes exactly one life, however many adversaries are
\* in range, moves the player to spawn + (0.5, 0.5), sets invincible_time to 2.0
\* and leaves mode Playing; a hit with lives 1 sets mode GameOver and the
\* death-animation timer to 0, and does not move the player.
C8_HitEffects ==
  Hit =>
    IF pre.lives >= 2
    THEN /\ lives = pre.lives - 1
         /\ player.x = Scale * get_level(pre.level_index).spawn[1] + 50
         /\ player.y = Scale * get_level(pre.level_index).spawn[2] + 50
         /\ invincible_time = 200
         /\ mode = "Playing"
    ELSE /\ mode = "GameOver"
         /\ death_anim_t = 0
         /\ player = AtCheck.player

\* C8 witness: a pass with two adversaries in range took one life of three
C8_Witness ==
  /\ pc = "pass" /\ pre.lives = 3 /\ lives = 2
  /\ Cardinality({ i \in 1..Len(pre.sprites) : pre.sprites[i].kind = "Ghost" }) = 2

\* C9: no update whose hazard check sees invincible_time > 0 takes a life, and
\* a life taken after an earlier hit comes after updates in Playing that sum to
\* at least the cooldown 2.0 since that hit; updates in Paused add nothing.
C9_CooldownProtects ==
  [][/\ (mode = "Playing" /\ invincible_time - (played' - played) > 0) => lives' = lives
     /\ (lives' < lives /\ last_hit >= 0) => played' - last_hit >= 200]_vars

\* C9 witness: a second life was taken, after a pause between the two hits
C9_Witness == lives = 1 /\ last_hit >= 200 /\ mode = "Paused"

\* C10 as the specification words it: the spawn cell of the level is traversable.
C10_SpawnTraversable == tile(level, level.spawn[1], level.spawn[2]) = 0

\* C11: tile(x, y) is 1 for every (x, y) with x < 0, y < 0, x >= w or y >= h, and
\* map[y*w + x] otherwise, an index inside the w*h entries of the grid.
C11_TileTotal ==
  (call.fn = "tile" /\ ret.done) =>
    LET lv == Levels[call.lv]
    IN IF call.x \in 0..(lv.w - 1) /\ call.y \in 0..(lv.h - 1)
       THEN /\ call.y * lv.w + call.x \in DOMAIN lv.map
            /\ DOMAIN lv.map = 0..(lv.w * lv.h - 1)
            /\ ret.val = lv.map[call.y * lv.w + call.x]
       ELSE ret.val = 1

\* C11 witness: tile returned for the cell right of the last column of level 3
C11_Witness ==
  call.fn = "tile" /\ ret.done /\ call.lv = 3 /\ call.x = 32 /\ call.y = 2 /\ ret.val = 1

\* C12: get_level(i) returns level 1 for i = 0, level 2 for i = 1 and level 3
\* for every other index.
C12_GetLevelTotal ==
  (call.fn = "get_level" /\ ret.done) =>
    <<ret.val.w, ret.val.h, ret.val.spawn, ret.val.ghost_count>> =
      IF call.idx = 0 THEN <<24, 16, <<2, 2>>, 3>>
      ELSE IF call.idx = 1 THEN <<28, 18, <<1, 1>>, 5>>
      ELSE <<32, 20, <<2, 2>>, 7>>

\* C12 witness: get_level returned level 3 for an index beyond the catalog
C12_Witness == call.fn = "get_level" /\ ret.done /\ call.idx = 4 /\ ret.val.w = 32

\* the entries of kind in a registry, in order
OfKind(sp, kind) == SelectSeq(sp, LAMBDA e : e.kind = kind)

\* the traversable non-spawn cells of a level
OpenCells(lv) ==
  { c \in (0..(lv.w - 1)) \X (0..(lv.h - 1)) : lv.map[c[2] * lv.w + c[1]] = 0 /\ c # lv.spawn }

\* the cells of the modulus pattern among them
PatternCells(lv) == { c \in OpenCells(lv) : (c[1] + c[2] * 3) % 6 = 0 }

\* the entity e is at the centre of the cell c
AtCentre(e, c) == e.x = Scale * c[1] + 50 /\ e.y = Scale * c[2] + 50

\* the cell c comes before the cell d in row-major order
RowMajorBefore(c, d) == c[2] < d[2] \/ (c[2] = d[2] /\ c[1] < d[1])

\* build_sprites_for_level has returned
Built == call.fn = "build_sprites_for_level" /\ ret.done

\* the cell whose centre the entity e is at, if it is at one
CellAt(e) == <<(e.x - 50) \div Scale, (e.y - 50) \div Scale>>

\* C13: when some traversable non-spawn cell has (x + y*3) % 6 = 0, the pellets
\* built are one per such cell, at its centre, in row-major order, and no other;
\* the layout depends on the level alone.
C13_PelletsOnPattern ==
  Built =>
    LET lv == Levels[call.lv]
        cells == PatternCells(lv)
        pel == OfKind(ret.val, "Pellet")
    IN cells # {} =>
         /\ Len(pel) = Cardinality(cells)
         /\ \A n \in 1..Len(pel) : CellAt(pel[n]) \in cells /\ AtCentre(pel[n], CellAt(pel[n]))
         /\ \A n \in 1..(Len(pel) - 1) : RowMajorBefore(CellAt(pel[n]), CellAt(pel[n + 1]))

\* C13 witness: the build of the 24 x 16 ring level placed its pattern pellets
C13_Witness == Built /\ call.lv = 4 /\ Len(OfKind(ret.val, "Pellet")) > 40

\* C14 as the specification words it: when the modulus scan yields no pellet
\* and some traversable non-spawn cell exists, exactly one pellet is built, on
\* the first traversable non-spawn cell in row-major order.
C14_FallbackPellet ==
  Built =>
    LET lv == Levels[call.lv]
        open == OpenCells(lv)
        pel == OfKind(ret.val, "Pellet")
    IN ({ c \in open : (c[1] + c[2] * 3) % 6 = 0 } = {} /\ open # {}) =>
         /\ Len(pel) = 1
         /\ CellAt(pel[1]) \in open
         /\ AtCentre(pel[1], CellAt(pel[1]))
         /\ \A d \in open : ~RowMajorBefore(d, CellAt(pel[1]))

\* the budget b holds a traversable cell of lv
HasOpen(lv, b) == \E n \in 1..Len(b) : lv.map[b[n][2] * lv.w + b[n][1]] = 0

InsideWall(lv, x, y) ==
  IF x < 0 \/ y < 0 THEN TRUE
  ELSE LET cx == x \div Scale
           cy == y \div Scale
       IN IF cx >= lv.w \/ cy >= lv.h THEN TRUE
          ELSE lv.map[cy * lv.w + cx] # 0

Moved == call.fn = "try_move" /\ ret.done

\* C16: try_move(dx, dy) sets x to x+dx iff (x+dx, y) is not inside a wall, and
\* then y to y+dy iff (resulting x, y+dy) is not inside a wall; from (5.0, 5.0)
\* with a wall at cell (6,5), +1.2 in X leaves X alone and a valid Y move applies.
C16_AxesIndependent ==
  Moved =>
    LET lv == Levels[call.lv]
        x1 == IF InsideWall(lv, call.px + call.dx, call.py) THEN call.px
              ELSE call.px + call.dx
        y1 == IF InsideWall(lv, x1, call.py + call.dy) THEN call.py
              ELSE call.py + call.dy
    IN /\ ret.val = <<x1, y1>>
       /\ (call.lv = 5 /\ call.px = 500 /\ call.py = 500 /\ call.dx = 120) =>
            ret.val = <<500, 500 + call.dy>>

\* C16 witness: from (5.0, 5.0) in the room with a wall at (6,5), the move
\* (+1.2, +1.2) was blocked in X and applied in Y
C16_Witness ==
  /\ Moved /\ call.lv = 5 /\ call.px = 500 /\ call.py = 500
  /\ call.dx = 120 /\ call.dy = 120
  /\ Levels[5].map[5 * 8 + 6] # 0
  /\ ret.val = <<500, 620>>

\* C17: Game::is_wall and is_wall_level give the same answer for every point and
\* level, true exactly when a coordinate is negative (points of (-1, 0) too),
\* the truncated cell is outside the grid, or the cell's tile id is not zero.
C17_WallTestsAgree ==
  (call.fn = "is_wall" /\ ret.done) =>
    /\ ret.val.player = ret.val.adversary
    /\ ret.val.player = InsideWall(Levels[call.lv], call.x, call.y)

\* C17 witness: both tests answered for a point of (-1, 0) above the open border
\* cell (1, 0) of the level with a gap
C17_Witness ==
  /\ call.fn = "is_wall" /\ ret.done /\ call.lv = 7
  /\ call.x = 150 /\ call.y = -50
  /\ Levels[7].map[1] = 0
  /\ ret.val.player /\ ret.val.adversary

Rendered == call.fn = "render_scene" /\ ret.done

\* the cells of row cy left of cell cx that hold a wall
WallsLeft(lv, cx, cy) == { c \in 0..(cx - 1) : lv.map[cy * lv.w + c] # 0 }

\* the distance along -x from (px, py) to the nearest wall face of its row, for
\* a point of the grid; the sentinel when the row is open to the edge
FaceLeft(lv, px, py) ==
  LET cx == px \div Scale
      cy == py \div Scale
      walls == WallsLeft(lv, cx, cy)
  IN IF walls = {} THEN no_hit
     ELSE LET c == CHOOSE c \in walls : \A d \in walls : d <= c
          IN Depth((px - (c + 1) * Scale) * Scale)

\* every border cell of the level is a wall
Closed(lv) ==
  \A x \in 0..(lv.w - 1), y \in 0..(lv.h - 1) :
     (x = 0 \/ y = 0 \/ x = lv.w - 1 \/ y = lv.h - 1) => lv.map[y * lv.w + x] # 0

\* C18: render_scene writes cols[x] for every column x of [0, w) exactly once,
\* in order and before render_sprites, with the distance of a wall hit, at least
\* 1e-4, or the sentinel 1e6 of a ray that left the grid; the buffer has one
\* entry per column.
C18_DepthPerColumn ==
  Rendered =>
    LET lv == Levels[call.lv]
        cols == ret.val.cols
        log == ret.val.log
    IN /\ DOMAIN cols = 0..(WIDTH - 1)
       /\ Len(log) = WIDTH + 1
       /\ \A n \in 1..WIDTH : log[n] = [op |-> "cols", x |-> n - 1]
       /\ log[WIDTH + 1].op = "render_sprites"
       /\ \A x \in 0..(WIDTH - 1) :
            \/ cols[x] = no_hit /\ ~Closed(lv)
            \/ /\ ~DepthLess(cols[x], min_dist)
               /\ DepthLess(cols[x], Depth((lv.w + lv.h) * Fine))
       /\ (call.angle = 0 /\ call.px < lv.w * Scale /\ call.py < lv.h * Scale) =>
            \A x \in 0..(WIDTH - 1) :
               2 * x = WIDTH =>
                 cols[x] = DepthMax(FaceLeft(lv, call.px, call.py), min_dist)

\* C18 witness: a frame seen from x = 1.0 on the face of the wall it looks at
\* stored the floor 1e-4 in every column
C18_Witness ==
  /\ Rendered /\ call.lv = 5 /\ call.px = 100 /\ call.py = 150 /\ call.angle = 0
  /\ \A x \in DOMAIN ret.val.cols : ret.val.cols[x] = min_dist
  /\ Len(ret.val.log) > 2

\* a frame of the level with an open border cell stored the sentinel in a column
\* whose ray left the grid, and a wall distance in another
C18_SentinelSeen ==
  /\ Rendered /\ call.lv = 7
  /\ \E x \in DOMAIN ret.val.cols : ret.val.cols[x] = no_hit
  /\ \E x \in DOMAIN ret.val.cols : DepthLess(ret.val.cols[x], no_hit)

\* C19: play_music_loop and play_sfx return normally for every outcome of the
\* device, of opening the file and of decoding it.
C19_AudioNeverAborts ==
  (call.fn \in {"play_music_loop", "play_sfx"} /\ ret.done) =>
    ret.val.status = "returned"

\* C20: on_key records the key's state in pressed in every mode and changes no
\* other entry, so a key released outside Playing is not held afterwards, and
\* a frame of Playing that costs no life moves the player only while a key is
\* held.
C20_PressedEveryMode ==
  /\ pc = "on_key" =>
       /\ pressed[arg.key] = arg.down
       /\ \A k \in Keys \ {arg.key} : pressed[k] = pre.pressed[k]
  /\ (pc = "update" /\ pre.mode = "Playing" /\ Held(pre.pressed) = {}
        /\ lives = pre.lives) =>
       <<player.x, player.y>> = <<pre.player.x, pre.player.y>>

\* C20 witness: W was held in a paused game and on_key recorded its release
C20_Witness ==
  /\ pc = "on_key" /\ pre.mode = "Paused" /\ pre.pressed["W"]
  /\ arg.key = "W" /\ ~arg.down
  /\ mode = "Paused" /\ ~pressed["W"]

\* a frame of Playing with W held moved the player
C20_HeldMoves ==
  /\ pc = "update" /\ pre.mode = "Playing" /\ pre.pressed["W"] /\ lives = pre.lives
  /\ <<player.x, player.y>> # <<pre.player.x, pre.player.y>>

FrameShown == call.fn = "render" /\ ret.done

\* C21: in every mode one render call writes every pixel of the w*h frame at
\* least once, the last row of an odd height too: no pixel of the frame before
\* is left.
C21_FrameOverwritten ==
  FrameShown =>
    /\ DOMAIN ret.val = 0..(WIDTH * HEIGHT - 1)
    /\ \A i \in 0..(WIDTH * HEIGHT - 1) : ret.val[i] # "stale"

\* C21 witness: a frame of Playing whose last row holds floor pixels, a column
\* of the sentinel having drawn its strip on the middle row only
C21_Witness ==
  /\ FrameShown /\ call.mode = "Playing" /\ call.lv = 7 /\ call.inv = 0
  /\ \E x \in 0..(WIDTH - 1) :
       /\ ret.val[(HEIGHT - 1) * WIDTH + x] = "floor"
       /\ ret.val[(HEIGHT \div 2) * WIDTH + x] = "wall"

Walked == call.fn = "cast" /\ ret.done

\* C22: from every player position inside the grid and for every ray, a zero X
\* or Y component included (infinite delta, no step along that axis), the walk
\* ends after finitely many cell steps, on a cell of the grid with a non-zero
\* tile id or on a cell outside the grid, recorded as no hit.
C22_WalkEnds ==
  (Walked /\ call.px < Levels[call.lv].w * Scale /\ call.py < Levels[call.lv].h * Scale) =>
    LET lv == Levels[call.lv]
        c == ret.val
        r == c.r
        steps_x == (r.map_x - call.px \div Scale) * c.step_x
        steps_y == (r.map_y - call.py \div Scale) * c.step_y
        inside == r.map_x \in 0..(lv.w - 1) /\ r.map_y \in 0..(lv.h - 1)
    IN /\ steps_x >= 0 /\ steps_y >= 0
       /\ steps_x + steps_y \in 1..(lv.w + lv.h)
       /\ c.ray_dir_x = 0 => c.delta_dist_x = INFINITY /\ steps_x = 0
       /\ c.ray_dir_y = 0 => c.delta_dist_y = INFINITY /\ steps_y = 0
       /\ IF inside THEN r.hit > 0 /\ r.hit = lv.map[r.map_y * lv.w + r.map_x]
          ELSE r.hit = -1

\* C22 witness: a ray with no X component walked along Y alone to a wall
C22_Witness ==
  /\ Walked /\ call.lv = 5 /\ call.px = 150 /\ call.py = 250
  /\ ret.val.ray_dir_x = 0 /\ ret.val.ray_dir_y # 0
  /\ ret.val.r.hit > 0 /\ ret.val.r.map_x = 1 /\ ret.val.r.map_y # 2

\* a ray of the level with an open border cell left the grid
C22_LeftGrid ==
  /\ Walked /\ call.lv = 7 /\ ret.val.r.hit = -1 /\ ret.val.r.map_y = -1

Composited == call.fn = "render_sprites" /\ ret.done

\* the forward distance of sprite s from p, along the heading, in 1/Fine
Forward(p, s) ==
  (((s.x - p.x) * p.dir_x + (s.y - p.y) * p.dir_y) * Scale)
    \div Sqrt(p.dir_x * p.dir_x + p.dir_y * p.dir_y)

\* C23: the compositor draws a sprite in screen column c only if the sprite's
\* forward distance is above 0.01 and strictly below cols[c]; a sprite behind
\* or at the camera, or a column at or beyond the wall depth, gets no pixel.
C23_SpriteOcclusion ==
  Composited =>
    \A n \in 1..Len(ret.val.drawn) :
       LET d == ret.val.drawn[n]
           fwd == Forward(ret.val.p, ret.val.sprites[d.sprite])
       IN /\ d.stripe \in 0..(WIDTH - 1)
          /\ fwd > near_plane - Scale
          /\ DepthLess(Depth(Max(fwd - Scale, 0)), ret.val.cols[d.stripe])

\* the distance of sprite s from p across the heading, in 1/Fine
Lateral(p, s) ==
  (((s.x - p.x) * p.dir_y - (s.y - p.y) * p.dir_x) * Scale)
    \div Sqrt(p.dir_x * p.dir_x + p.dir_y * p.dir_y)

\* C23 witness: the ghost stands straight ahead, two tiles or more away, behind
\* a wall that is nearer in the centre column: it got no pixel, while the
\* pellet of the same frame was drawn
C23_Witness ==
  /\ Composited
  /\ LET fwd == Forward(ret.val.p, ret.val.sprites[1])
     IN /\ fwd >= 2 * Fine
        /\ Lateral(ret.val.p, ret.val.sprites[1]) = 0
        /\ DepthLess(ret.val.cols[WIDTH \div 2], Depth(fwd - Scale))
  /\ Len(ret.val.drawn) > 0
  /\ \A n \in 1..Len(ret.val.drawn) : ret.val.drawn[n].sprite = 2

\* a ghost was drawn in two columns of a frame that has a column whose wall is
\* nearer than the ghost
C23_PartlySeen ==
  /\ Composited
  /\ \E n, m \in 1..Len(ret.val.drawn) :
       /\ ret.val.drawn[n].sprite = 1 /\ ret.val.drawn[m].sprite = 1
       /\ ret.val.drawn[n].stripe # ret.val.drawn[m].stripe
       /\ \E c \in 0..(WIDTH - 1) :
            ~DepthLess(Depth(ret.val.drawn[n].transform_y), ret.val.cols[c])

\* a sprite behind the camera got no pixel while the other was drawn
C23_BehindSkipped ==
  /\ Composited
  /\ Forward(ret.val.p, ret.val.sprites[1]) < 0
  /\ Len(ret.val.drawn) > 0
  /\ \A n \in 1..Len(ret.val.drawn) : ret.val.drawn[n].sprite = 2

\* C24: in every reachable state every adversary stands in a traversable cell of
\* the grid: it is created on one, and a steering step moves it along an axis
\* only to a point that is not inside a wall.
C24_AdversariesInOpenCells ==
  \A n \in 1..Len(sprites) :
     sprites[n].kind = "Ghost" => ~InsideWall(level, sprites[n].x, sprites[n].y)

\* C24 witness: during play an adversary has left the centre of its cell and
\* stands less than a tenth of a tile from the edge of a cell
C24_Witness ==
  /\ mode = "Playing" /\ time > 0
  /\ \E n \in 1..Len(sprites) :
       /\ sprites[n].kind = "Ghost"
       /\ \/ sprites[n].x % Scale < 10 \/ sprites[n].x % Scale >= 90
          \/ sprites[n].y % Scale < 10 \/ sprites[n].y % Scale >= 90

\* the call recorded started no level
NoLevelStart ==
  \/ pc \in {"update", "pass", "on_mouse_delta"}
  \/ pc = "on_key" /\ Starts(pre, arg.key, arg.down) = -1

\* C25: a call that starts no level leaves the number of adversaries in the
\* registry as it was, removes nothing but pickups and adds no entry.
C25_AdversariesPersist ==
  NoLevelStart =>
    /\ CountKind(sprites, "Ghost") = CountKind(pre.sprites, "Ghost")
    /\ CountKind(sprites, "Pellet") <= CountKind(pre.sprites, "Pellet")
    /\ Len(sprites) <= Len(pre.sprites)

\* C25 witness: a frame of Playing collected two pickups lying between the two
\* adversaries of the registry, which are both still there
C25_Witness ==
  /\ pc = "update" /\ pre.mode = "Playing"
  /\ Len(pre.sprites) = 5 /\ Len(sprites) = 3
  /\ CountKind(sprites, "Ghost") = 2
  /\ sprites[1].kind = "Ghost" /\ sprites[3].kind = "Ghost"

\* the tolerance of the basis, in 1/Scale: the resolution of the model's
\* coordinates and of its sine, for the rotations of the frames of one level
BasisTol == Scale \div 50

Within(v, len) ==
  /\ v >= (len - BasisTol) * (len - BasisTol)
  /\ v <= (len + BasisTol) * (len + BasisTol)

\* C26: every change of the heading (key turn, pointer delta, level start) turns
\* the camera plane by the same rotation: after any sequence of them the dot
\* product of heading and plane is 0 and their magnitudes are 1 and 0.66,
\* within tolerance.
C26_BasisKept ==
  /\ Abs(player.dir_x * player.plane_x + player.dir_y * player.plane_y) <= BasisTol * Scale
  /\ Within(player.dir_x * player.dir_x + player.dir_y * player.dir_y, Scale)
  /\ Within(player.plane_x * player.plane_x + player.plane_y * player.plane_y, 66)

\* C26 witness: heading and plane have both left the axes they start on
C26_Witness ==
  /\ Abs(player.dir_y) > 10 /\ Abs(player.dir_x) > 10
  /\ Abs(player.plane_x) > 10 /\ Abs(player.plane_y) > 10

\* C27: in every reachable state 0 <= lives <= 3; lives >= 1 whenever the mode
\* is Playing or Paused; lives = 0 whenever the mode is GameOver.
C27_LivesRange ==
  /\ lives \in 0..3
  /\ mode \in {"Playing", "Paused"} => lives >= 1
  /\ mode = "GameOver" => lives = 0

\* C27 witness: the game is over, the third hit having taken the last life
C27_Witness == mode = "GameOver" /\ lives = 0 /\ time > 0

\* the game is paused on its last life
C27_LastLifePaused == mode = "Paused" /\ lives = 1

\* C28: in every reachable state with mode Playing or Paused, on every catalog
\* level, the player's position is not inside a wall.
C28_PlayerInOpenCell ==
  mode \in {"Playing", "Paused"} => ~InsideWall(level, player.x, player.y)

\* pose, registry, lives, pellet counters and timers of a Game
Play(g) ==
  <<g.level_index, g.level, g.player, g.sprites, g.pellets_remaining,
    g.total_pellets, g.lives, g.invincible_time, g.time, g.death_anim_t>>

\* C29: a key event that starts no level changes nothing but the mode and the
\* pressed array; an update or a pointer delta on a paused game leaves it paused
\* with pose, registry, lives, pellet counters and timers as they were, so these
\* are at the resume what they were when P paused the game.
C29_KeysAndPauseKeepPlay ==
  /\ (pc = "on_key" /\ Starts(pre, arg.key, arg.down) = -1) =>
       /\ Play(Game) = Play(pre)
       /\ <<fps, fps_acc, fps_count>> = <<pre.fps, pre.fps_acc, pre.fps_count>>
  /\ (pc \in {"update", "on_mouse_delta"} /\ pre.mode = "Paused") =>
       Play(Game) = Play(pre) /\ mode = "Paused"

\* C29 witness: P resumed a paused game whose cooldown runs, with a key held
C29_Witness ==
  /\ pc = "on_key" /\ arg.key = "P" /\ arg.down
  /\ pre.mode = "Paused" /\ mode = "Playing"
  /\ invincible_time > 0 /\ Len(sprites) = 5

\* P paused a game whose cooldown runs
C29_Paused ==
  /\ pc = "on_key" /\ arg.key = "P" /\ arg.down
  /\ pre.mode = "Playing" /\ mode = "Paused" /\ invincible_time > 0

\* a frame passed on a paused game
C29_PausedFrame ==
  pc = "update" /\ pre.mode = "Paused" /\ pre.invincible_time > 0 /\ fps_count > pre.fps_count

\* C30: right after a level start no Adversary stands on the player's spawn cell
\* and none is within the hit radius of the player.
C30_NoAdversaryAtSpawn ==
  StartedLevel # -1 =>
    \A i \in 1..Len(sprites) :
      sprites[i].kind = "Ghost" =>
        /\ <<sprites[i].x \div Scale, sprites[i].y \div Scale>> # level.spawn
        /\ Dist2(player, sprites[i]) >= hit_r * hit_r

SceneDrawn == call.fn = "scene_accesses" /\ ret.done

\* C31: in a call of render_scene with the DepthBuffer made for the width w,
\* every index written in the frame lies in [0, w*h*4) and every index used on
\* depth.cols lies in [0, w), wherever the sprites are.
C31_IndicesInBounds ==
  SceneDrawn =>
    LET used == ret.val.used
    IN /\ used.back \cup used.wall \cup used.sprite \subseteq 0..(WIDTH * HEIGHT * 4 - 1)
       /\ used.cols \cup used.stripe \subseteq 0..(WIDTH - 1)

\* C31 witness: a sprite a step ahead of the eye, taller and wider than the
\* screen, so that both its rows and its columns were cut on either side, was
\* drawn in every column, in a frame one of whose wall strips was cut too
C31_Witness ==
  /\ SceneDrawn
  /\ \E i \in 1..Len(ret.val.sprites) :
       LET v == project(WIDTH, HEIGHT, ret.val.p, ret.val.sprites[i])
       IN /\ v.transform_y > near_plane
          /\ v.sprite_h \div 2 + v.sprite_screen_x > WIDTH - 1
          /\ -(v.sprite_h \div 2) + v.sprite_screen_x < 0
          /\ v.sprite_h \div 2 + HEIGHT \div 2 > HEIGHT - 1
          /\ -(v.sprite_h \div 2) + HEIGHT \div 2 < 0
  /\ ret.val.used.stripe = 0..(WIDTH - 1)
  /\ ret.val.used.sprite = ret.val.used.back
  /\ \E x \in 0..(WIDTH - 1) : line_height(HEIGHT, ret.val.cols[x]) > 2 * HEIGHT

\* a sprite in front of the eye whose columns all lie right of the screen, or
\* all left of it, used no index
C31_OffScreen ==
  /\ SceneDrawn
  /\ \E i \in 1..Len(ret.val.sprites) :
       LET v == project(WIDTH, HEIGHT, ret.val.p, ret.val.sprites[i])
       IN /\ v.transform_y > near_plane
          /\ \/ -(v.sprite_h \div 2) + v.sprite_screen_x > WIDTH - 1
             \/ v.sprite_h \div 2 + v.sprite_screen_x < 0
  /\ ret.val.used.stripe = {}
  /\ ret.val.used.sprite = {}

\* a sprite outside the grid, ahead of the eye, had its columns compared with
\* the walls, which hide it
C31_OutsideGrid ==
  /\ SceneDrawn
  /\ ret.val.sprites[1].x < 0
  /\ project(WIDTH, HEIGHT, ret.val.p, ret.val.sprites[2]).transform_y <= near_plane
  /\ ret.val.used.stripe # {}
  /\ ret.val.used.sprite = {}

====
